---------------------------- MODULE Spec2Model ----------------------------
(***************************************************************************)
(* A model of the UniGuide server (src/server.js): the university search   *)
(* chain with its TTL cache, the fit scorer, the connection registry and   *)
(* the per-connection message pipeline.                                    *)
(*                                                                         *)
(* Conventions.                                                            *)
(*  - A JavaScript string is a sequence of one-character strings, so that  *)
(*    toLowerCase, includes, split and join are computed, not assumed.     *)
(*  - A nullable number is a set: {} is null, {v} is the number v.         *)
(*  - GPAs and acceptance rates are kept in hundredths (4.17 is 417).      *)
(*  - Fractions (the fit scores) are exact rationals [n |-> , d |-> ].     *)
(*  - A JavaScript Map is a function whose DOMAIN is the set of its keys.  *)
(*  - Time is Date.now() in milliseconds.                                  *)
(*  - The code between two awaits on I/O runs as one step: Node runs a     *)
(*    callback and the microtasks it queues to completion before the next  *)
(*    event is delivered.                                                  *)
(***************************************************************************)
EXTENDS Integers, Sequences, FiniteSets, TLC

VARIABLES
    now,          \* Date.now()
    cache,        \* per RobustUniversitySearch instance: its Map key -> entry
    calls,        \* the searchUniversities calls made so far, in call order
    stores,       \* log of the setCache calls, in order
    scored,       \* the college and profile given to the scorer: <<>> or <<[college, userProfile, done]>>
    applied,      \* the calls of the agent's synchronous methods made on their own, in call order
    sockets,      \* per WebSocket: readyState, whether its listeners are attached, frames sent
    agents,       \* per WebSocket: the UniGuideAgent built for it (userProfile, conversationHistory)
    activeConnections,   \* ConnectionManager.activeConnections: Map ws -> agent
    connectionTimeouts,  \* ConnectionManager.connectionTimeouts: Map ws -> timer
    msgs,         \* the invocations of the message listener, in arrival order
    settled       \* the number of awaited external calls that have settled

searchVars == <<now, cache, calls, stores>>
scoreVars == <<scored, applied>>
serverVars == <<sockets, agents, activeConnections, connectionTimeouts, msgs>>
vars == <<now, cache, calls, stores, scored, applied,
         sockets, agents, activeConnections, connectionTimeouts, msgs, settled>>

-----------------------------------------------------------------------------
(* Strings                                                                 *)

LowerOf ==
    [c \in {"A","B","C","D","E","F","G","H","I","J","K","L","M",
            "N","O","P","Q","R","S","T","U","V","W","X","Y","Z"} |->
        CASE c = "A" -> "a" [] c = "B" -> "b" [] c = "C" -> "c" [] c = "D" -> "d"
          [] c = "E" -> "e" [] c = "F" -> "f" [] c = "G" -> "g" [] c = "H" -> "h"
          [] c = "I" -> "i" [] c = "J" -> "j" [] c = "K" -> "k" [] c = "L" -> "l"
          [] c = "M" -> "m" [] c = "N" -> "n" [] c = "O" -> "o" [] c = "P" -> "p"
          [] c = "Q" -> "q" [] c = "R" -> "r" [] c = "S" -> "s" [] c = "T" -> "t"
          [] c = "U" -> "u" [] c = "V" -> "v" [] c = "W" -> "w" [] c = "X" -> "x"
          [] c = "Y" -> "y" [] c = "Z" -> "z"]

\* String.prototype.toLowerCase; the two capitals outside ASCII that the
\* source's strings contain are U+0152 and U+0160
toLowerCase(s) ==
    [i \in 1..Len(s) |->
        IF s[i] \in DOMAIN LowerOf THEN LowerOf[s[i]]
        ELSE IF s[i] = "u0152" THEN "u0153"
        ELSE IF s[i] = "u0160" THEN "u0161"
        ELSE s[i]]

\* String.prototype.includes
includes(s, t) ==
    \E i \in 0..(Len(s) - Len(t)) : SubSeq(s, i + 1, i + Len(t)) = t

\* String.prototype.split(' ')
RECURSIVE splitFrom(_, _, _)
splitFrom(s, i, cur) ==
    IF i > Len(s) THEN <<cur>>
    ELSE IF s[i] = " " THEN <<cur>> \o splitFrom(s, i + 1, <<>>)
    ELSE splitFrom(s, i + 1, Append(cur, s[i]))

split(s) == splitFrom(s, 1, <<>>)

\* Array.prototype.join(sep)
RECURSIVE join(_, _)
join(parts, sep) ==
    IF Len(parts) = 0 THEN <<>>
    ELSE IF Len(parts) = 1 THEN parts[1]
    ELSE parts[1] \o sep \o join(Tail(parts), sep)

\* Array.prototype.filter, keeping the order
filterSeq(s, keep(_)) == SelectSeq(s, keep)

\* Array.prototype.slice(0, n)
sliceHead(s, n) == SubSeq(s, 1, IF Len(s) < n THEN Len(s) ELSE n)

\* Array.prototype.slice(-n)
sliceTail(s, n) == SubSeq(s, (IF Len(s) < n THEN 0 ELSE Len(s) - n) + 1, Len(s))

\* String(value) of an integer
RECURSIVE digitsOf(_)
digitsOf(v) ==
    LET d == <<"0","1","2","3","4","5","6","7","8","9">>[(v % 10) + 1]
    IN  IF v < 0 THEN <<"-">> \o digitsOf(0 - v)
        ELSE IF v < 10 THEN <<d>> ELSE Append(digitsOf(v \div 10), d)

\* String.prototype.trim, for blanks
RECURSIVE trimStart(_)
trimStart(s) == IF s # <<>> /\ s[1] = " " THEN trimStart(Tail(s)) ELSE s
RECURSIVE trimEnd(_)
trimEnd(s) == IF s # <<>> /\ s[Len(s)] = " " THEN trimEnd(SubSeq(s, 1, Len(s) - 1)) ELSE s
trim(s) == trimEnd(trimStart(s))

\* replace(/\s+/g, '')
stripSpaces(s) == filterSeq(s, LAMBDA c : c # " ")

-----------------------------------------------------------------------------
(* The seed dataset                                                        *)

loadStaticCollegeData ==
  <<
     [ name |-> <<"M","a","s","s","a","c","h","u","s","e","t","t","s"," ","I","n","s","t","i","t","u","t","e"," ","o","f"," ","T","e","c","h","n","o","l","o","g","y">>,
       location |-> <<"C","a","m","b","r","i","d","g","e",","," ","M","A">>,
       ranking |-> 2, tuition |-> 57590, acceptance_rate |-> 4,
       avg_sat |-> 1520, avg_gpa |-> 417,
       majors |-> << <<"C","o","m","p","u","t","e","r"," ","S","c","i","e","n","c","e">>,
                     <<"E","n","g","i","n","e","e","r","i","n","g">>,
                     <<"P","h","y","s","i","c","s">>,
                     <<"M","a","t","h","e","m","a","t","i","c","s">> >>,
       description |-> <<"L","e","a","d","i","n","g"," ","t","e","c","h","n","o","l","o","g","y"," ","a","n","d"," ","e","n","g","i","n","e","e","r","i","n","g"," ","r","e","s","e","a","r","c","h"," ","u","n","i","v","e","r","s","i","t","y">> ],
     [ name |-> <<"S","t","a","n","f","o","r","d"," ","U","n","i","v","e","r","s","i","t","y">>,
       location |-> <<"S","t","a","n","f","o","r","d",","," ","C","A">>,
       ranking |-> 6, tuition |-> 56169, acceptance_rate |-> 4,
       avg_sat |-> 1505, avg_gpa |-> 418,
       majors |-> << <<"C","o","m","p","u","t","e","r"," ","S","c","i","e","n","c","e">>,
                     <<"E","n","g","i","n","e","e","r","i","n","g">>,
                     <<"B","u","s","i","n","e","s","s">>,
                     <<"M","e","d","i","c","i","n","e">> >>,
       description |-> <<"P","r","e","m","i","e","r"," ","r","e","s","e","a","r","c","h"," ","u","n","i","v","e","r","s","i","t","y"," ","i","n"," ","S","i","l","i","c","o","n"," ","V","a","l","l","e","y">> ],
     [ name |-> <<"H","a","r","v","a","r","d"," ","U","n","i","v","e","r","s","i","t","y">>,
       location |-> <<"C","a","m","b","r","i","d","g","e",","," ","M","A">>,
       ranking |-> 3, tuition |-> 54269, acceptance_rate |-> 3,
       avg_sat |-> 1515, avg_gpa |-> 418,
       majors |-> << <<"L","i","b","e","r","a","l"," ","A","r","t","s">>,
                     <<"M","e","d","i","c","i","n","e">>,
                     <<"L","a","w">>,
                     <<"B","u","s","i","n","e","s","s">> >>,
       description |-> <<"P","r","e","s","t","i","g","i","o","u","s"," ","I","v","y"," ","L","e","a","g","u","e"," ","i","n","s","t","i","t","u","t","i","o","n">> ],
     [ name |-> <<"C","a","l","i","f","o","r","n","i","a"," ","I","n","s","t","i","t","u","t","e"," ","o","f"," ","T","e","c","h","n","o","l","o","g","y">>,
       location |-> <<"P","a","s","a","d","e","n","a",","," ","C","A">>,
       ranking |-> 9, tuition |-> 58680, acceptance_rate |-> 6,
       avg_sat |-> 1545, avg_gpa |-> 419,
       majors |-> << <<"E","n","g","i","n","e","e","r","i","n","g">>,
                     <<"P","h","y","s","i","c","s">>,
                     <<"C","o","m","p","u","t","e","r"," ","S","c","i","e","n","c","e">>,
                     <<"C","h","e","m","i","s","t","r","y">> >>,
       description |-> <<"E","l","i","t","e"," ","s","c","i","e","n","c","e"," ","a","n","d"," ","e","n","g","i","n","e","e","r","i","n","g"," ","f","o","c","u","s","e","d"," ","i","n","s","t","i","t","u","t","e">> ],
     [ name |-> <<"U","n","i","v","e","r","s","i","t","y"," ","o","f"," ","C","a","l","i","f","o","r","n","i","a",","," ","B","e","r","k","e","l","e","y">>,
       location |-> <<"B","e","r","k","e","l","e","y",","," ","C","A">>,
       ranking |-> 22, tuition |-> 14312, acceptance_rate |-> 11,
       avg_sat |-> 1405, avg_gpa |-> 389,
       majors |-> << <<"C","o","m","p","u","t","e","r"," ","S","c","i","e","n","c","e">>,
                     <<"E","n","g","i","n","e","e","r","i","n","g">>,
                     <<"B","u","s","i","n","e","s","s">>,
                     <<"L","i","b","e","r","a","l"," ","A","r","t","s">> >>,
       description |-> <<"T","o","p"," ","p","u","b","l","i","c"," ","r","e","s","e","a","r","c","h"," ","u","n","i","v","e","r","s","i","t","y">> ],
     [ name |-> <<"C","a","r","n","e","g","i","e"," ","M","e","l","l","o","n"," ","U","n","i","v","e","r","s","i","t","y">>,
       location |-> <<"P","i","t","t","s","b","u","r","g","h",","," ","P","A">>,
       ranking |-> 25, tuition |-> 59864, acceptance_rate |-> 11,
       avg_sat |-> 1480, avg_gpa |-> 387,
       majors |-> << <<"C","o","m","p","u","t","e","r"," ","S","c","i","e","n","c","e">>,
                     <<"E","n","g","i","n","e","e","r","i","n","g">>,
                     <<"R","o","b","o","t","i","c","s">>,
                     <<"D","r","a","m","a">> >>,
       description |-> <<"P","r","e","m","i","e","r"," ","c","o","m","p","u","t","e","r"," ","s","c","i","e","n","c","e"," ","a","n","d"," ","e","n","g","i","n","e","e","r","i","n","g"," ","p","r","o","g","r","a","m","s">> ],
     [ name |-> <<"U","n","i","v","e","r","s","i","t","y"," ","o","f"," ","M","i","c","h","i","g","a","n">>,
       location |-> <<"A","n","n"," ","A","r","b","o","r",","," ","M","I">>,
       ranking |-> 21, tuition |-> 15948, acceptance_rate |-> 18,
       avg_sat |-> 1435, avg_gpa |-> 388,
       majors |-> << <<"E","n","g","i","n","e","e","r","i","n","g">>,
                     <<"B","u","s","i","n","e","s","s">>,
                     <<"M","e","d","i","c","i","n","e">>,
                     <<"L","i","b","e","r","a","l"," ","A","r","t","s">> >>,
       description |-> <<"L","a","r","g","e"," ","p","u","b","l","i","c"," ","r","e","s","e","a","r","c","h"," ","u","n","i","v","e","r","s","i","t","y"," ","w","i","t","h"," ","s","t","r","o","n","g"," ","p","r","o","g","r","a","m","s">> ],
     [ name |-> <<"G","e","o","r","g","i","a"," ","I","n","s","t","i","t","u","t","e"," ","o","f"," ","T","e","c","h","n","o","l","o","g","y">>,
       location |-> <<"A","t","l","a","n","t","a",","," ","G","A">>,
       ranking |-> 38, tuition |-> 12852, acceptance_rate |-> 16,
       avg_sat |-> 1465, avg_gpa |-> 404,
       majors |-> << <<"E","n","g","i","n","e","e","r","i","n","g">>,
                     <<"C","o","m","p","u","t","e","r"," ","S","c","i","e","n","c","e">>,
                     <<"B","u","s","i","n","e","s","s">> >>,
       description |-> <<"T","o","p"," ","e","n","g","i","n","e","e","r","i","n","g"," ","a","n","d"," ","t","e","c","h","n","o","l","o","g","y"," ","p","r","o","g","r","a","m","s">> ],
     [ name |-> <<"U","n","i","v","e","r","s","i","t","y"," ","o","f"," ","T","e","x","a","s"," ","a","t"," ","A","u","s","t","i","n">>,
       location |-> <<"A","u","s","t","i","n",","," ","T","X">>,
       ranking |-> 38, tuition |-> 11448, acceptance_rate |-> 29,
       avg_sat |-> 1355, avg_gpa |-> 371,
       majors |-> << <<"B","u","s","i","n","e","s","s">>,
                     <<"E","n","g","i","n","e","e","r","i","n","g">>,
                     <<"L","i","b","e","r","a","l"," ","A","r","t","s">>,
                     <<"C","o","m","p","u","t","e","r"," ","S","c","i","e","n","c","e">> >>,
       description |-> <<"L","a","r","g","e"," ","p","u","b","l","i","c"," ","u","n","i","v","e","r","s","i","t","y"," ","w","i","t","h"," ","d","i","v","e","r","s","e"," ","s","t","r","o","n","g"," ","p","r","o","g","r","a","m","s">> ],
     [ name |-> <<"U","n","i","v","e","r","s","i","t","y"," ","o","f"," ","W","a","s","h","i","n","g","t","o","n">>,
       location |-> <<"S","e","a","t","t","l","e",","," ","W","A">>,
       ranking |-> 59, tuition |-> 12076, acceptance_rate |-> 48,
       avg_sat |-> 1315, avg_gpa |-> 375,
       majors |-> << <<"C","o","m","p","u","t","e","r"," ","S","c","i","e","n","c","e">>,
                     <<"M","e","d","i","c","i","n","e">>,
                     <<"E","n","g","i","n","e","e","r","i","n","g">>,
                     <<"B","u","s","i","n","e","s","s">> >>,
       description |-> <<"S","t","r","o","n","g"," ","r","e","s","e","a","r","c","h"," ","p","r","o","g","r","a","m","s"," ","e","s","p","e","c","i","a","l","l","y"," ","i","n"," ","t","e","c","h"," ","a","n","d"," ","m","e","d","i","c","i","n","e">> ]
  >>

\* this.staticCollegeData, set once by the constructor
staticCollegeData == loadStaticCollegeData

-----------------------------------------------------------------------------
(* RobustUniversitySearch: the TTL cache                                   *)

\* this.cacheTimeout = 10 * 60 * 1000
cacheTimeout == 600000

\* new Map()
emptyMap == [k \in {} |-> {}]

\* Map.prototype.delete
mapDelete(m, key) == [k \in (DOMAIN m) \ {key} |-> m[k]]

\* Map.prototype.set
mapSet(m, key, value) == [k \in (DOMAIN m) \cup {key} |-> IF k = key THEN value ELSE m[k]]

\* mutant: an entry exactly cacheTimeout old still counts as fresh
cacheFreshInclusive(m, key, t) == key \in DOMAIN m /\ t - m[key].timestamp <= cacheTimeout

\* the test of line 419: an entry exists and is younger than cacheTimeout
cacheFresh(m, key, t) == key \in DOMAIN m /\ t - m[key].timestamp < cacheTimeout

\* getFromCache(key) at time t: what it returns (hit, data) and the Map it leaves
getFromCache(m, key, t) ==
    IF cacheFresh(m, key, t)
    THEN [hit |-> TRUE, data |-> m[key].data, cache |-> m]
    ELSE [hit |-> FALSE, data |-> <<>>, cache |-> mapDelete(m, key)]

\* setCache(key, data) at time t
setCache(m, key, data, t) == mapSet(m, key, [data |-> data, timestamp |-> t])

-----------------------------------------------------------------------------
(* RobustUniversitySearch: the provider chain                              *)

\* the text a seed college is matched against (line 405)
searchTextOf(college) ==
    toLowerCase(college.name \o <<" ">> \o college.location \o <<" ">>
                \o join(college.majors, <<" ">>) \o <<" ">> \o college.description)

\* the RawResult of one seed college (lines 409-414); college_data is the
\* reference to the seed object, kept as its index in staticCollegeData
staticResultOf(i) ==
    LET college == staticCollegeData[i]
    IN  [ title |-> college.name,
          snippet |-> college.description
                      \o <<" ","L","o","c","a","t","e","d"," ","i","n"," ">>
                      \o college.location
                      \o <<"."," ","T","u","i","t","i","o","n",":"," ","$">>
                      \o digitsOf(college.tuition),
          url |-> <<"h","t","t","p","s",":","/","/","w","w","w",".">>
                  \o stripSpaces(toLowerCase(college.name)) \o <<".","e","d","u">>,
          college_data |-> i ]

\* the search with keywords.every in place of keywords.some
staticDataSearchEvery(query) ==
    LET keywords == split(toLowerCase(query))
        matches(i) == \A k \in 1..Len(keywords) :
                          includes(searchTextOf(staticCollegeData[i]), keywords[k])
        matched == filterSeq([i \in 1..Len(staticCollegeData) |-> i], matches)
    IN  [j \in 1..Len(matched) |-> staticResultOf(matched[j])]

\* staticDataSearch(query)
staticDataSearch(query) ==
    LET keywords == split(toLowerCase(query))
        matches(i) == \E k \in 1..Len(keywords) :
                          includes(searchTextOf(staticCollegeData[i]), keywords[k])
        matched == filterSeq([i \in 1..Len(staticCollegeData) |-> i], matches)
    IN  [j \in 1..Len(matched) |-> staticResultOf(matched[j])]

\* queries: two that differ only in letter case and match one seed college
\* ("Drama" is a major of Carnegie Mellon only), one that matches none
QueryLower == <<"d","r","a","m","a">>
QueryMixed == <<"D","r","a","m","a">>
QueryNoMatch == <<"z","z","z">>
Queries == {QueryLower, QueryMixed, QueryNoMatch}

\* what a settled provider call delivers: it threw, or it returned a list
Threw == [threw |-> TRUE, results |-> <<>>]
Returned(list) == [threw |-> FALSE, results |-> list]

\* mutant: the length test of line 283 is lost
strategyWinsAnyList(o) == ~o.threw

\* line 283 inside the try of line 279: the strategy's result is taken
strategyWins(o) == ~o.threw /\ Len(o.results) > 0

\* the searchStrategies array of lines 272-276, by position
BRAVE == 1
DUCKDUCKGO == 2
STATIC == 3

\* The state of one searchUniversities call.  status is the await the call
\* is suspended at ("brave", "duckduckgo"), or "returned", or "raised".
\* tried lists the strategies invoked, outs what each delivered; at is the
\* time of the call and nstores the number of setCache calls made before it.
newCall(inst, query, t, nstores) ==
    [ inst |-> inst, query |-> query, cacheKey |-> toLowerCase(query),
      at |-> t, nstores |-> nstores, hit |-> FALSE, status |-> "brave",
      tried |-> <<>>, outs |-> <<>>, result |-> <<>> ]

\* lines 265-276: the cache check, then the first strategy is invoked
searchUniversitiesEnter(call, m, t) ==
    LET g == getFromCache(m, call.cacheKey, t)
    IN  IF g.hit
        THEN [ call |-> [call EXCEPT !.hit = TRUE, !.status = "returned", !.result = g.data],
               cache |-> g.cache ]
        ELSE [ call |-> [call EXCEPT !.status = "brave", !.tried = <<BRAVE>>],
               cache |-> g.cache ]

\* lines 283-287: the strategy that settled with o won
strategyTaken(call, o, m, t) ==
    [ call |-> [call EXCEPT !.outs = Append(@, o), !.status = "returned",
                            !.result = o.results],
      cache |-> setCache(m, call.cacheKey, o.results, t) ]

\* mutant: the empty result of a failed chain is cached too
allStrategiesFailedCached(call, m) ==
    [ call |-> [call EXCEPT !.status = "returned", !.result = <<>>],
      cache |-> setCache(m, call.cacheKey, <<>>, call.at) ]

\* lines 294-295
allStrategiesFailed(call, m) ==
    [ call |-> [call EXCEPT !.status = "returned", !.result = <<>>], cache |-> m ]

-----------------------------------------------------------------------------
(* Data models: UserProfile and College                                    *)

\* the number NaN, kept as an integer that no computation of the model
\* yields
NaN == 0 - 2147483647

\* a nullable number that JavaScript treats as true: neither null, 0 nor NaN
truthy(x) == x # {} /\ x # {0} /\ x # {NaN}

\* the number held by a non-null nullable
valueOf(x) == CHOOSE v \in x : TRUE

\* new UserProfile()
newUserProfile ==
    [ gpa |-> {}, sat_score |-> {}, act_score |-> {}, interests |-> <<>>,
      budget |-> {}, location_preference |-> <<>>, major_preference |-> <<>> ]

\* College.parseNumber of an integer: String(value) with every non-digit
\* removed (the sign of a negative number goes), read back by parseInt
parseNumber(value) ==
    IF value = 0 THEN {} ELSE {IF value < 0 THEN 0 - value ELSE value}

\* College.parseFloat of a number kept in hundredths
parseFloatOf(value) == IF value = 0 THEN {} ELSE {value}

\* new College(data), for a data object that has every field, as the seed
\* objects have
College(data) ==
    [ name |-> IF data.name = <<>>
               THEN <<"U","n","k","n","o","w","n"," ","U","n","i","v","e","r","s","i","t","y">>
               ELSE data.name,
      location |-> IF data.location = <<>>
                   THEN <<"U","n","k","n","o","w","n"," ","L","o","c","a","t","i","o","n">>
                   ELSE data.location,
      ranking |-> parseNumber(data.ranking),
      tuition |-> parseNumber(data.tuition),
      acceptance_rate |-> parseFloatOf(data.acceptance_rate),
      avg_sat |-> parseNumber(data.avg_sat),
      avg_gpa |-> parseFloatOf(data.avg_gpa),
      majors |-> data.majors,
      description |-> data.description,
      fit_score |-> [n |-> 0, d |-> 1] ]

-----------------------------------------------------------------------------
(* JSON values and their conversions to numbers                            *)

\* A value of a JSON field that is expected to hold a number is a number
\* (an integer, in the unit of the field), a string or a boolean.
JSNumber(n) == [number |-> n]
JSString(chars) == [string |-> chars]
JSBoolean(b) == [boolean |-> b]
isJSNumber(v) == DOMAIN v = {"number"}
isJSString(v) == DOMAIN v = {"string"}
isJSBoolean(v) == DOMAIN v = {"boolean"}

\* ToBoolean of a nullable value
jsTruthy(x) ==
    x # {} /\ \A v \in x : IF isJSNumber(v) THEN v.number # 0
                            ELSE IF isJSString(v) THEN v.string # <<>>
                            ELSE v.boolean

Digits == <<"0","1","2","3","4","5","6","7","8","9">>
isDigit(c) == \E d \in 1..10 : Digits[d] = c
digitValue(c) == (CHOOSE d \in 1..10 : Digits[d] = c) - 1

\* the length of the longest prefix of s made of digits
leadingDigits(s) ==
    CHOOSE n \in 0..Len(s) :
        /\ \A j \in 1..n : isDigit(s[j])
        /\ n < Len(s) => ~isDigit(s[n + 1])

\* the number written by a sequence of digits
RECURSIVE natOf(_)
natOf(ds) ==
    IF ds = <<>> THEN 0
    ELSE natOf(SubSeq(ds, 1, Len(ds) - 1)) * 10 + digitValue(ds[Len(ds)])

RECURSIVE pow10(_)
pow10(n) == IF n = 0 THEN 1 ELSE 10 * pow10(n - 1)

\* the sign a numeric text starts with, and the text after it
signOf(s) == IF s # <<>> /\ s[1] = "-" THEN 0 - 1 ELSE 1
unsigned(s) == IF s # <<>> /\ s[1] \in {"-", "+"} THEN Tail(s) ELSE s

\* The longest prefix of s that is a decimal literal (digits, an optional
\* fraction, an optional exponent): whether there is one, its length, and
\* its value as mantissa m and decimal exponent e.
decimalPrefix(s) ==
    LET result(ni, hasDot, nf, r3, ne) ==
            [ found |-> ni + nf > 0,
              len |-> ni + (IF hasDot THEN nf + 1 ELSE 0)
                      + (IF ne > 0 THEN 1 + (Len(r3) - Len(unsigned(r3))) + ne ELSE 0),
              m |-> natOf(SubSeq(s, 1, ni)
                          \o (IF hasDot THEN SubSeq(s, ni + 2, ni + nf + 1) ELSE <<>>)),
              e |-> (IF ne > 0 THEN signOf(r3) * natOf(SubSeq(unsigned(r3), 1, ne)) ELSE 0)
                    - nf ]
        \* r3: the text after an exponent mark
        exponentPart(ni, hasDot, nf, r3) ==
            result(ni, hasDot, nf, r3, leadingDigits(unsigned(r3)))
        \* r2: the text after the mantissa
        afterMantissa(ni, hasDot, nf, r2) ==
            exponentPart(ni, hasDot, nf,
                         IF r2 # <<>> /\ r2[1] \in {"e", "E"} THEN Tail(r2) ELSE <<>>)
        \* nf: the digits of the fraction
        fractionPart(ni, hasDot, nf) ==
            afterMantissa(ni, hasDot, nf,
                          SubSeq(s, ni + (IF hasDot THEN nf + 1 ELSE 0) + 1, Len(s)))
        \* ni: the digits of the integer part
        integerPart(ni, hasDot) ==
            fractionPart(ni, hasDot,
                         IF hasDot THEN leadingDigits(SubSeq(s, ni + 2, Len(s))) ELSE 0)
        dotAfter(ni) == integerPart(ni, ni < Len(s) /\ s[ni + 1] = ".")
    IN  dotAfter(leadingDigits(s))

\* m * 10^e in units of 10^-k (the texts of the model have at most k decimals)
scaled(m, e, k) ==
    IF e + k >= 0 THEN m * pow10(e + k) ELSE m \div pow10(0 - (e + k))

\* the value of the decimal literal p, signed by the text s it was read from
literalValue(s, p, k) == signOf(s) * scaled(p.m, p.e, k)

\* ToNumber of a string (hexadecimal, binary and Infinity texts apart): the
\* trimmed text is empty (0), a signed decimal literal, or not a number
stringToNumber(s, k) ==
    LET read(t, p) ==
            IF t = <<>> THEN {0}
            ELSE IF p.found /\ p.len = Len(unsigned(t)) THEN {literalValue(t, p, k)}
            ELSE {NaN}
    IN  read(trim(s), decimalPrefix(unsigned(trim(s))))

\* ToNumber, as applied by >= and <= to a value compared with a number
toNumber(v, k) ==
    IF isJSNumber(v) THEN {v.number}
    ELSE IF isJSBoolean(v) THEN {IF v.boolean THEN pow10(k) ELSE 0}
    ELSE stringToNumber(v.string, k)

\* mutant: the test of the range passes for every number
betweenUnbounded(v, k, lo, hi) == \A n \in toNumber(v, k) : n # NaN

\* value >= lo && value <= hi: false when the value is not a number
between(v, k, lo, hi) == \A n \in toNumber(v, k) : n # NaN /\ lo <= n /\ n <= hi

\* the global parseFloat(value): String(value), then the longest prefix
\* that is a signed decimal literal
parseFloatJS(v, k) ==
    IF isJSNumber(v) THEN v.number
    ELSE IF isJSBoolean(v) THEN NaN
    ELSE LET read(t, p) == IF p.found THEN literalValue(t, p, k) ELSE NaN
         IN  read(trimStart(v.string), decimalPrefix(unsigned(trimStart(v.string))))

\* the global parseInt(value): String(value), then the sign and the leading
\* digits
parseIntJS(v) ==
    IF isJSNumber(v) THEN v.number
    ELSE IF isJSBoolean(v) THEN NaN
    ELSE LET read(t, n) ==
                 IF n > 0 THEN signOf(t) * natOf(SubSeq(unsigned(t), 1, n)) ELSE NaN
         IN  read(trimStart(v.string), leadingDigits(unsigned(trimStart(v.string))))

-----------------------------------------------------------------------------
(* Exact fractions                                                         *)

RECURSIVE gcd(_, _)
gcd(a, b) == IF b = 0 THEN a ELSE gcd(b, a % b)

abs(x) == IF x < 0 THEN 0 - x ELSE x

\* n/d in lowest terms, d > 0
frac(n, d) ==
    LET g == gcd(abs(n), d)
    IN  IF n = 0 THEN [n |-> 0, d |-> 1] ELSE [n |-> n \div g, d |-> d \div g]

fracAdd(a, b) ==
    LET l == (a.d \div gcd(a.d, b.d)) * b.d
    IN  frac(a.n * (l \div a.d) + b.n * (l \div b.d), l)

fracMul(a, b) ==
    LET g1 == gcd(abs(a.n), b.d)
        g2 == gcd(abs(b.n), a.d)
    IN  IF a.n = 0 \/ b.n = 0 THEN [n |-> 0, d |-> 1]
        ELSE frac((a.n \div g1) * (b.n \div g2), (a.d \div g2) * (b.d \div g1))

\* a / b for b > 0
fracDiv(a, b) == fracMul(a, [n |-> b.d, d |-> b.n])

\* a <= b, compared by whole parts and then by the remainders, whose
\* order is the reverse of the order of their reciprocals: no product is
\* formed, so that fractions of large terms compare within the integers of
\* the checker
RECURSIVE fracLeq(_, _)
fracLeq(a, b) ==
    IF a.n \div a.d # b.n \div b.d THEN a.n \div a.d < b.n \div b.d
    ELSE IF a.n % a.d = 0 THEN TRUE
    ELSE IF b.n % b.d = 0 THEN FALSE
    ELSE fracLeq([n |-> b.d, d |-> b.n % b.d], [n |-> a.d, d |-> a.n % a.d])

\* Math.max(0, a) and Math.min(1, a)
fracMax0(a) == IF a.n < 0 THEN [n |-> 0, d |-> 1] ELSE a
fracMin1(a) == IF a.n > a.d THEN [n |-> 1, d |-> 1] ELSE a

-----------------------------------------------------------------------------
(* FitScoringTool                                                          *)

\* calculateAcademicFit: {} is null
calculateAcademicFit(college, userProfile) ==
    IF ~truthy(userProfile.gpa) /\ ~truthy(userProfile.sat_score) THEN {}
    ELSE
      LET gpaOn == truthy(userProfile.gpa) /\ truthy(college.avg_gpa)
          satOn == truthy(userProfile.sat_score) /\ truthy(college.avg_sat)
          \* Math.max(0, 1 - gpaDiff / 2), the GPAs being in hundredths
          gpaScore == fracMax0(frac(200 - abs(valueOf(college.avg_gpa)
                                              - valueOf(userProfile.gpa)), 200))
          \* Math.max(0, 1 - satDiff / 400)
          satScore == fracMax0(frac(400 - abs(valueOf(college.avg_sat)
                                              - valueOf(userProfile.sat_score)), 400))
          academicScore == fracAdd(IF gpaOn THEN gpaScore ELSE frac(0, 1),
                                   IF satOn THEN satScore ELSE frac(0, 1))
          factors == (IF gpaOn THEN 1 ELSE 0) + (IF satOn THEN 1 ELSE 0)
      IN  IF factors > 0 THEN {fracDiv(academicScore, frac(factors, 1))} ELSE {}

\* calculateMajorFit
calculateMajorFit(college, userProfile) ==
    IF Len(userProfile.major_preference) = 0 \/ Len(college.majors) = 0 THEN {}
    ELSE
      LET hasMatch(userMajor) ==
              \E k \in 1..Len(college.majors) :
                  \/ includes(toLowerCase(college.majors[k]), toLowerCase(userMajor))
                  \/ includes(toLowerCase(userMajor), toLowerCase(college.majors[k]))
          matches == Len(filterSeq(userProfile.major_preference, hasMatch))
      IN  {frac(matches, Len(userProfile.major_preference))}

\* calculateLocationFit
calculateLocationFit(college, userProfile) ==
    IF Len(userProfile.location_preference) = 0 THEN {}
    ELSE
      LET hasLocationMatch ==
              \E k \in 1..Len(userProfile.location_preference) :
                  includes(toLowerCase(college.location),
                           toLowerCase(userProfile.location_preference[k]))
      IN  {IF hasLocationMatch THEN frac(1, 1) ELSE frac(0, 1)}

\* userProfile.budget?.max_annual_tuition as a nullable number
maxAnnualTuition(userProfile) ==
    IF userProfile.budget = {} THEN {}
    ELSE {valueOf(userProfile.budget).max_annual_tuition}

\* mutant: the cap of Math.min is lost
withinBudgetScoreUncapped(budget, tuition) == frac(2 * budget - tuition, 2 * tuition)

\* Math.min(1.0, budget / tuition - 0.5)
withinBudgetScore(budget, tuition) == fracMin1(frac(2 * budget - tuition, 2 * tuition))

\* Math.max(0, 1 - (tuition - budget) / budget), for a budget of either sign
overBudgetScore(budget, tuition) ==
    fracMax0(IF budget < 0 THEN frac(tuition - 2 * budget, 0 - budget)
             ELSE frac(2 * budget - tuition, budget))

\* calculateAffordabilityScore
calculateAffordabilityScore(college, userProfile) ==
    IF ~truthy(maxAnnualTuition(userProfile)) \/ ~truthy(college.tuition) THEN {}
    ELSE
      LET budget == valueOf(maxAnnualTuition(userProfile))
          tuition == valueOf(college.tuition)
      IN  IF tuition <= budget THEN {withinBudgetScore(budget, tuition)}
          ELSE {overBudgetScore(budget, tuition)}

\* the weights of scoreCollege, in tenths
academicWeight == 4
majorWeight == 3
locationWeight == 2
affordabilityWeight == 1

\* mutant: a dimension that does not apply still counts in weightSum
weightOfAny(score, weight) == weight

\* weightSum += weight, inside if (score !== null)
weightOf(score, weight) == IF score = {} THEN 0 ELSE weight

\* scoreCollege
scoreCollege(college, userProfile) ==
    LET academicScore == calculateAcademicFit(college, userProfile)
        majorScore == calculateMajorFit(college, userProfile)
        locationScore == calculateLocationFit(college, userProfile)
        affordabilityScore == calculateAffordabilityScore(college, userProfile)
        part(score, weight) ==
            IF score = {} THEN frac(0, 1) ELSE fracMul(valueOf(score), frac(weight, 10))
        totalScore ==
            fracAdd(fracAdd(part(academicScore, academicWeight),
                            part(majorScore, majorWeight)),
                    fracAdd(part(locationScore, locationWeight),
                            part(affordabilityScore, affordabilityWeight)))
        weightSum == weightOf(academicScore, academicWeight)
                     + weightOf(majorScore, majorWeight)
                     + weightOf(locationScore, locationWeight)
                     + weightOf(affordabilityScore, affordabilityWeight)
    IN  IF weightSum > 0 THEN fracDiv(totalScore, frac(weightSum, 10)) ELSE frac(1, 2)

-----------------------------------------------------------------------------
(* UniGuideAgent: profile merge, intent detection, query building          *)

\* an extracted info object: a field that is absent is {}
noInfo ==
    [ gpa |-> {}, sat_score |-> {}, act_score |-> {}, interests |-> {},
      location_preference |-> {}, budget |-> {} ]

\* mutant: the extracted array takes the place of the list
mergeNewReplacing(existing, extracted) == extracted

\* lines 890-895 and 899-904: the entries of extracted that equal no entry of
\* existing when both are lowercased, appended to existing
mergeNew(existing, extracted) ==
    existing \o filterSeq(extracted,
                          LAMBDA e : ~\E k \in 1..Len(existing) :
                                         toLowerCase(existing[k]) = toLowerCase(e))

\* updateProfile(extractedInfo): the profile it leaves and the flag it returns
updateProfile(userProfile, extractedInfo) ==
    LET merged(gpaOk, satOk, actOk, interestsOk, locationOk, budgetOk) ==
            [ userProfile |->
                [ gpa |-> IF gpaOk THEN {parseFloatJS(valueOf(extractedInfo.gpa), 2)}
                          ELSE userProfile.gpa,
                  sat_score |->
                      IF satOk THEN {parseIntJS(valueOf(extractedInfo.sat_score))}
                      ELSE userProfile.sat_score,
                  act_score |->
                      IF actOk THEN {parseIntJS(valueOf(extractedInfo.act_score))}
                      ELSE userProfile.act_score,
                  interests |-> userProfile.interests,
                  major_preference |->
                      IF interestsOk
                      THEN mergeNew(userProfile.major_preference,
                                    valueOf(extractedInfo.interests))
                      ELSE userProfile.major_preference,
                  location_preference |->
                      IF locationOk
                      THEN mergeNew(userProfile.location_preference,
                                    valueOf(extractedInfo.location_preference))
                      ELSE userProfile.location_preference,
                  budget |->
                      IF budgetOk
                      THEN {[ max_annual_tuition |->
                                  parseIntJS(valueOf(valueOf(extractedInfo.budget)
                                                         .max_annual_tuition)),
                              type |-> "under" ]}
                      ELSE userProfile.budget ],
              updated |-> gpaOk \/ satOk \/ actOk \/ interestsOk \/ locationOk \/ budgetOk ]
    IN  merged(jsTruthy(extractedInfo.gpa)
                   /\ between(valueOf(extractedInfo.gpa), 2, 0, 400),
               jsTruthy(extractedInfo.sat_score)
                   /\ between(valueOf(extractedInfo.sat_score), 0, 400, 1600),
               jsTruthy(extractedInfo.act_score)
                   /\ between(valueOf(extractedInfo.act_score), 0, 1, 36),
               extractedInfo.interests # {},
               extractedInfo.location_preference # {},
               extractedInfo.budget # {}
                   /\ jsTruthy(valueOf(extractedInfo.budget).max_annual_tuition))

\* IntentType
COLLEGE_MATCH == "college_match"
ESSAY_REVISE == "essay_revise"
SCHEDULE_PLAN == "schedule_plan"
GENERAL_QA == "general_qa"

\* the keyword lists of detectIntent; a character outside ASCII is written
\* as its code point
keywords_COLLEGE_MATCH ==
    << <<"r","e","c","o","m","m","e","n","d">>,
       <<"u","n","i","v","e","r","s","i","t","y">>,
       <<"c","o","l","l","e","g","e">>,
       <<"m","a","t","c","h">>,
       <<"f","i","n","d">>,
       <<"s","e","a","r","c","h">>,
       <<"s","u","g","g","e","s","t">>,
       <<"u00E6","u00A8","u00E8">>,
       <<"u00E5","u00A4","u00A7","u00E5","u00AD","u00A6">>,
       <<"u00E5","u00AD","u00A6","u00E6","u00A0","u00A1">>,
       <<"u00E5","u0152","u00B9","u00E9","u2026">>,
       <<"u00E5","u00AF","u00BB","u00E6","u2030","u00BE">> >>

keywords_ESSAY_REVISE ==
    << <<"e","s","s","a","y">>,
       <<"p","e","r","s","o","n","a","l"," ","s","t","a","t","e","m","e","n","t">>,
       <<"a","p","p","l","i","c","a","t","i","o","n">>,
       <<"w","r","i","t","i","n","g">>,
       <<"u00E8","u00AE","u00BA","u00E6","u2013","u2021">>,
       <<"u00E6","u2013","u2021","u00E4","u00B9","u00A6">>,
       <<"u00E7","u201D","u00B3","u00E8","u00AF","u00B7">> >>

keywords_SCHEDULE_PLAN ==
    << <<"d","e","a","d","l","i","n","e">>,
       <<"t","i","m","e","l","i","n","e">>,
       <<"s","c","h","e","d","u","l","e">>,
       <<"p","l","a","n">>,
       <<"u00E6","u02C6","u00AA","u00E6","u00AD","u00A2">>,
       <<"u00E6","u2014","u00B6","u00E9","u2014","u00B4">>,
       <<"u00E8","u00AE","u00A1","u00E5","u02C6","u2019">>,
       <<"u00E8","u00A7","u201E","u00E5","u02C6","u2019">> >>

keywords_GENERAL_QA ==
    << <<"h","e","l","p">>,
       <<"a","d","v","i","c","e">>,
       <<"q","u","e","s","t","i","o","n">>,
       <<"u00E5","u00B8","u00AE","u00E5","u0160","u00A9">>,
       <<"u00E5","u00BB","u00BA","u00E8","u00AE","u00AE">>,
       <<"u00E9","u2014","u00AE","u00E9","u00A2","u02DC">> >>

\* the keys of the keywords object, in insertion order
intentOrder == <<COLLEGE_MATCH, ESSAY_REVISE, SCHEDULE_PLAN, GENERAL_QA>>

keywordsOf(intent) ==
    CASE intent = COLLEGE_MATCH -> keywords_COLLEGE_MATCH
      [] intent = ESSAY_REVISE -> keywords_ESSAY_REVISE
      [] intent = SCHEDULE_PLAN -> keywords_SCHEDULE_PLAN
      [] intent = GENERAL_QA -> keywords_GENERAL_QA

\* scores[intent]: the number of its keywords the lowercased message includes
intentScore(message, intent) ==
    Len(filterSeq(keywordsOf(intent),
                  LAMBDA keyword : includes(toLowerCase(message), toLowerCase(keyword))))

\* mutant: the default for a message that matches no keyword is lost
forcesCollegeMatchOnHit(collegeMatchScore, maxScore) == collegeMatchScore > 0

\* the test of line 945
forcesCollegeMatch(collegeMatchScore, maxScore) == collegeMatchScore > 0 \/ maxScore = 0

\* mutant: the reduce keeps the earlier of two intents with equal scores
detectIntentEarlierOnTie(message) ==
    LET score(i) == intentScore(message, intentOrder[i])
        pick(a, b) == IF score(a) >= score(b) THEN a ELSE b
        topIntent == intentOrder[pick(pick(pick(1, 2), 3), 4)]
        maxScore == CHOOSE v \in {score(i) : i \in 1..4} : \A i \in 1..4 : score(i) <= v
    IN  IF forcesCollegeMatch(score(1), maxScore) THEN COLLEGE_MATCH ELSE topIntent

\* detectIntent(message)
detectIntent(message) ==
    LET score(i) == intentScore(message, intentOrder[i])
        \* the reduce of lines 940-942: a is kept only when strictly higher
        pick(a, b) == IF score(a) > score(b) THEN a ELSE b
        topIntent == intentOrder[pick(pick(pick(1, 2), 3), 4)]
        \* Math.max(...Object.values(scores))
        maxScore == CHOOSE v \in {score(i) : i \in 1..4} : \A i \in 1..4 : score(i) <= v
    IN  IF forcesCollegeMatch(score(1), maxScore) THEN COLLEGE_MATCH ELSE topIntent

\* the searchParams object of lines 965-974.  majors and location are set to
\* the profile's own arrays (a reference, kept as a flag); max_tuition is a
\* copy of the number
searchParamsOf(userProfile) ==
    [ majors |-> Len(userProfile.major_preference) > 0,
      location |-> Len(userProfile.location_preference) > 0,
      max_tuition |-> IF truthy(maxAnnualTuition(userProfile))
                      THEN maxAnnualTuition(userProfile) ELSE {} ]

\* queryParams.majors and queryParams.location read through the references
paramMajors(queryParams, userProfile) ==
    IF queryParams.majors THEN userProfile.major_preference ELSE <<>>
paramLocation(queryParams, userProfile) ==
    IF queryParams.location THEN userProfile.location_preference ELSE <<>>

\* buildSearchQuery(queryParams)
buildSearchQuery(queryParams, userProfile) ==
    LET majors == paramMajors(queryParams, userProfile)
        location == paramLocation(queryParams, userProfile)
        parts ==
            << <<"u","n","i","v","e","r","s","i","t","i","e","s"," ",
                 "c","o","l","l","e","g","e","s">> >>
            \o (IF Len(majors) > 0
                THEN <<join(majors, <<" ">>) \o <<" ","p","r","o","g","r","a","m","s">>>>
                ELSE <<>>)
            \o (IF Len(location) > 0
                THEN << <<"i","n"," ">> \o join(location, <<" ">>) >>
                ELSE <<>>)
            \o (IF truthy(queryParams.max_tuition)
                THEN << <<"t","u","i","t","i","o","n"," ","u","n","d","e","r"," ","$">>
                        \o digitsOf(valueOf(queryParams.max_tuition)) >>
                ELSE <<>>)
            \o << <<"a","d","m","i","s","s","i","o","n"," ",
                    "r","e","q","u","i","r","e","m","e","n","t","s"," ",
                    "r","a","n","k","i","n","g">> >>
    IN  join(parts, <<" ">>)

\* fallbackToStaticData(queryParams)
fallbackToStaticData(queryParams, userProfile) ==
    LET majors == paramMajors(queryParams, userProfile)
        location == paramLocation(queryParams, userProfile)
        all == [i \in 1..Len(staticCollegeData) |-> College(staticCollegeData[i])]
        byMajor ==
            IF Len(majors) > 0
            THEN filterSeq(all, LAMBDA college :
                     \E i \in 1..Len(majors), k \in 1..Len(college.majors) :
                         includes(toLowerCase(college.majors[k]), toLowerCase(majors[i])))
            ELSE all
        byLocation ==
            IF Len(location) > 0
            THEN filterSeq(byMajor, LAMBDA college :
                     \E i \in 1..Len(location) :
                         includes(toLowerCase(college.location), toLowerCase(location[i])))
            ELSE byMajor
        byTuition ==
            IF truthy(queryParams.max_tuition)
            THEN filterSeq(byLocation, LAMBDA college :
                     ~truthy(college.tuition)
                     \/ valueOf(college.tuition) <= valueOf(queryParams.max_tuition))
            ELSE byLocation
    IN  sliceHead(byTuition, 10)

\* isValid without its tests of the location
isValidByName(college) ==
    /\ college.name # <<>>
    /\ college.name # <<"U","n","k","n","o","w","n"," ","U","n","i","v","e","r","s","i","t","y">>

\* College.isValid
isValid(college) ==
    /\ college.name # <<>>
    /\ college.name # <<"U","n","k","n","o","w","n"," ","U","n","i","v","e","r","s","i","t","y">>
    /\ college.location # <<>>
    /\ college.location # <<"U","n","k","n","o","w","n"," ","L","o","c","a","t","i","o","n">>

\* SafeJSONParser.validateCollegeData, for a parsed object
validateCollegeData(data) == data.name # <<>> /\ data.location # <<>>

\* the filter that lets through what is within 6000 of the budget
budgetFilteredLoosely(colleges, userProfile) ==
    filterSeq(colleges, LAMBDA college :
        ~truthy(college.tuition)
        \/ valueOf(college.tuition) <= valueOf(maxAnnualTuition(userProfile)) + 6000)

\* budgetFiltered of lines 994-996
budgetFiltered(colleges, userProfile) ==
    filterSeq(colleges, LAMBDA college :
        ~truthy(college.tuition)
        \/ valueOf(college.tuition) <= valueOf(maxAnnualTuition(userProfile)))

\* the filter without the test of line 997
budgetFilterStrict(colleges, userProfile) ==
    IF truthy(maxAnnualTuition(userProfile))
    THEN budgetFiltered(colleges, userProfile)
    ELSE colleges

\* filteredColleges of lines 992-1002
budgetFilter(colleges, userProfile) ==
    IF truthy(maxAnnualTuition(userProfile)) /\ Len(budgetFiltered(colleges, userProfile)) > 0
    THEN budgetFiltered(colleges, userProfile)
    ELSE colleges

\* filteredColleges.sort((a, b) => b.fit_score - a.fit_score): a stable sort,
\* highest fit_score first
RECURSIVE insertByFit(_, _)
insertByFit(sorted, college) ==
    IF sorted = <<>> THEN <<college>>
    ELSE IF fracLeq(college.fit_score, sorted[1].fit_score)
         THEN <<sorted[1]>> \o insertByFit(Tail(sorted), college)
         ELSE <<college>> \o sorted

RECURSIVE sortByFit(_)
sortByFit(colleges) ==
    IF colleges = <<>> THEN <<>>
    ELSE insertByFit(sortByFit(SubSeq(colleges, 1, Len(colleges) - 1)),
                     colleges[Len(colleges)])

\* mutant: the numbers restart in every tier
entryIndexPerTier(earlier, i) == i

\* the number of the i-th entry of a tier (i from 1), earlier being the number
\* of entries of the tiers before it: excellent.length + good.length + i + 1
\* for the source's i, which is from 0
entryIndex(earlier, i) == earlier + i

\* formatCollegeEntry(college, index), with the tier it is rendered under
formatCollegeEntry(college, index, tier) ==
    [name |-> college.name, fit_score |-> college.fit_score, index |-> index,
     tier |-> tier]

\* c.fit_score >= 0.8, and c.fit_score >= 0.6
atLeast80(c) == fracLeq([n |-> 4, d |-> 5], c.fit_score)
atLeast60(c) == fracLeq([n |-> 3, d |-> 5], c.fit_score)

\* what generateCollegeReport(colleges) renders: the entries in the order of
\* the text, the tier of fit_score >= 0.8 first, then the tier from 0.6, then
\* the rest, each entry with its number, name and fit_score
generateCollegeReport(colleges) ==
    LET render(excellent, good, decent) ==
            [ kind |-> "report",
              entries |->
                  [i \in 1..Len(excellent) |->
                      formatCollegeEntry(excellent[i], entryIndex(0, i), "excellent")]
                  \o [i \in 1..Len(good) |->
                         formatCollegeEntry(good[i], entryIndex(Len(excellent), i), "good")]
                  \o [i \in 1..Len(decent) |->
                         formatCollegeEntry(decent[i],
                                            entryIndex(Len(excellent) + Len(good), i),
                                            "decent")] ]
        tiers(list) ==
            render(filterSeq(list, atLeast80),
                   filterSeq(list, LAMBDA c : atLeast60(c) /\ ~atLeast80(c)),
                   filterSeq(list, LAMBDA c : ~atLeast60(c)))
    IN  tiers(colleges)

\* the fixed replies
generateFallbackAdvice == [kind |-> "advice"]
essayReply == [kind |-> "essay"]
scheduleReply == [kind |-> "schedule"]
generalQAApology == [kind |-> "qa_apology"]
errorResponse == [kind |-> "apology"]

-----------------------------------------------------------------------------
(* The inputs of the server model and the queries they lead to             *)

Drama == <<"d","r","a","m","a">>
ComputerScience == <<"c","o","m","p","u","t","e","r"," ","s","c","i","e","n","c","e">>
Law == <<"L","A","W">>

\* bounds of the server model: sockets that connect, frames received
MaxSockets == 2
MaxMsgs == 2

\* what the extractUserInfo oracle can deliver: an error or an unparseable
\* content (threw), the JSON text null (value = {}), or an object
OracleThrew == [threw |-> TRUE, value |-> {}]
OracleValue(v) == [threw |-> FALSE, value |-> {v}]
OracleNull == [threw |-> FALSE, value |-> {}]
InfoDrama == [noInfo EXCEPT !.interests = {<<Drama>>}]
InfoBudget ==
    [noInfo EXCEPT !.gpa = {JSNumber(380)}, !.location_preference = {<< <<"P","A">> >>},
                   !.budget = {[max_annual_tuition |-> {JSNumber(10000)}]}]
InfoComputerScience == [noInfo EXCEPT !.interests = {<<ComputerScience>>}]
InfoScores == [noInfo EXCEPT !.sat_score = {JSNumber(1500)}, !.act_score = {JSNumber(30)}]
InfoLaw == [noInfo EXCEPT !.interests = {<<Law, Drama>>}, !.gpa = {JSNumber(401)}]
InfoNegativeBudget ==
    [noInfo EXCEPT !.budget = {[max_annual_tuition |-> {JSNumber(0 - 5000)}]}]
InfoOddNumbers ==
    [noInfo EXCEPT !.gpa = {JSBoolean(TRUE)},
                   !.sat_score = {JSString(<<" ","9","0","0"," ">>)},
                   !.budget = {[max_annual_tuition |-> {JSString(<<"c","h","e","a","p">>)}]}]
InfoLowBudget == [noInfo EXCEPT !.budget = {[max_annual_tuition |-> {JSNumber(1000)}]}]
ExtractedInfos == {noInfo, InfoDrama, InfoBudget}
ExtractUserInfoOutcomes == {OracleThrew, OracleNull} \cup {OracleValue(i) : i \in ExtractedInfos}

\* the profiles n merges of extracted infos can lead to
RECURSIVE ProfilesAfter(_)
ProfilesAfter(n) ==
    IF n = 0 THEN {newUserProfile}
    ELSE LET before == ProfilesAfter(n - 1)
         IN  before \cup {updateProfile(p, i).userProfile :
                              p \in before,
                              i \in ExtractedInfos
                                    \cup {InfoComputerScience, InfoScores, InfoLaw,
                                          InfoNegativeBudget, InfoOddNumbers, InfoLowBudget}}

\* every query a specification of this module can pass to searchUniversities
AllQueries ==
    Queries \cup {buildSearchQuery(searchParamsOf(p), p) : p \in ProfilesAfter(MaxMsgs + 1)}

-----------------------------------------------------------------------------
(* RobustUniversitySearch: the chain from its second strategy on           *)

\* staticDataSearch over the queries of the model, evaluated once
staticResults == [q \in AllQueries |-> staticDataSearch(q)]

\* the third strategy is synchronous: it runs in the step that reaches it
runStatic(call, m, t) ==
    LET settle(c3, o) ==
            IF strategyWins(o) THEN strategyTaken(c3, o, m, t)
            ELSE allStrategiesFailed([c3 EXCEPT !.outs = Append(@, o)], m)
    IN  settle([call EXCEPT !.tried = Append(@, STATIC)],
               Returned(staticResults[call.query]))

\* the loop of lines 278-292 resumed when braveSearch settles with o
afterBrave(call, o, m, t) ==
    IF strategyWins(o) THEN strategyTaken(call, o, m, t)
    ELSE [ call |-> [call EXCEPT !.outs = Append(@, o), !.status = "duckduckgo",
                                 !.tried = Append(@, DUCKDUCKGO)],
           cache |-> m ]

\* the loop resumed when duckDuckGoSearch settles with o
afterDuckDuckGo(call, o, m, t) ==
    IF strategyWins(o) THEN strategyTaken(call, o, m, t)
    ELSE runStatic([call EXCEPT !.outs = Append(@, o)], m, t)

-----------------------------------------------------------------------------
(* UniGuideAgent: one message through processMessage                       *)

\* An agent's own state, a socket, and one invocation of the message
\* handler.  A handler invocation is suspended at an await (status), and
\* resumes as a continuation over the context x = [agent, socket, msg].
newAgent == [userProfile |-> newUserProfile, conversationHistory |-> <<>>]

\* readyState is "NONE" until the connection event; handlers tells whether
\* the listeners of lines 1590-1634 are attached; sent lists the frames the
\* server sent, each with the handler invocation it was sent by (re)
newSocket == [readyState |-> "NONE", handlers |-> FALSE, sent |-> <<>>]

noParams == [majors |-> FALSE, location |-> FALSE, max_tuition |-> {}]

\* a handler invocation for a frame received at time t; failed collects the
\* steps that failed on its way, final the type of the final frame it sent,
\* request the messages it gave to the oracle of processGeneralQA, colleges
\* the length of the list search returned to processCollegeMatch ({} until
\* it returns)
newMsg(id, ws, frame, t) ==
    [ id |-> id, ws |-> ws, frame |-> frame, at |-> t, status |-> "handler",
      began |-> FALSE, call |-> 0, queryParams |-> noParams, failed |-> {},
      final |-> "none", request |-> <<>>, colleges |-> {} ]

\* ws.send of a frame: delivered only from an open socket.  On a socket
\* that is closing or closed nothing is sent and the call fails (by the
\* version of the library it throws, or reports to a callback that is not
\* given here): the failure is kept in failed.
wsSend(x, type, message) ==
    IF x.socket.readyState = "OPEN"
    THEN [x EXCEPT !.socket.sent =
                       Append(@, [type |-> type, message |-> message, re |-> x.msg.id])]
    ELSE [x EXCEPT !.msg.failed = @ \cup {"ws.send"}]

\* sendStatusUpdate without its test of readyState
sendStatusUpdateUnguarded(x, message) == wsSend(x, "status_update", message)

\* sendStatusUpdate(message)
sendStatusUpdate(x, message) ==
    IF x.socket.readyState = "OPEN" THEN wsSend(x, "status_update", message) ELSE x

\* mutant: the response is built and recorded but not sent
sendResponseDropped(x, message) == x

\* sendResponse(message)
sendResponse(x, message) ==
    IF x.socket.readyState = "OPEN"
    THEN [wsSend(x, "ai_response", message) EXCEPT !.msg.final = "ai_response"]
    ELSE x

\* the error frames of the message handler (lines 1597-1601, 1609-1613,
\* 1617-1621)
sendError(x, message) ==
    [wsSend(x, "error", message) EXCEPT
        !.msg.final = IF x.socket.readyState = "OPEN" THEN "error" ELSE @,
        !.msg.status = "done"]

\* processMessage, lines 1212-1218: the response is recorded
recordResponse(x, response) ==
    LET pushed == Append(x.agent.conversationHistory,
                         [role |-> "assistant", content |-> response])
        kept == IF Len(pushed) > 12 THEN sliceTail(pushed, 12) ELSE pushed
    IN  [x EXCEPT !.agent.conversationHistory = kept, !.msg.status = "done"]

\* mutant: the response is sent and not recorded
finishProcessMessageUnrecorded(x, response) ==
    sendResponse([x EXCEPT !.msg.status = "done"], response)

\* processMessage, lines 1212-1222: the response is recorded and sent
finishProcessMessage(x, response) == sendResponse(recordResponse(x, response), response)

\* the catch of processMessage, lines 1223-1228, entered with the context x
\* the exception left
processMessageCatch(x) ==
    sendResponse([x EXCEPT !.msg.failed = @ \cup {"processMessage"}, !.msg.status = "done"],
                 errorResponse)

\* the catch of processCollegeMatch, lines 1010-1014
collegeMatchCatch(x, step) ==
    finishProcessMessage(
        sendStatusUpdate([x EXCEPT !.msg.failed = @ \cup {step}], "processing_error"),
        generateFallbackAdvice)

\* scoredColleges of lines 986-989
scoreColleges(colleges, userProfile) ==
    [i \in 1..Len(colleges) |->
        [colleges[i] EXCEPT !.fit_score = scoreCollege(colleges[i], userProfile)]]

\* mutant: the budget filter is left out
matchedCollegesUnfiltered(colleges, userProfile) ==
    sliceHead(sortByFit(scoreColleges(colleges, userProfile)), 8)

\* recommendations of lines 986-1005: the scored colleges, filtered by the
\* budget, sorted by fit score, the first eight of them
matchedColleges(colleges, userProfile) ==
    sliceHead(sortByFit(budgetFilter(scoreColleges(colleges, userProfile), userProfile)), 8)

\* processCollegeMatch from line 978 on: colleges is what search returned
finishCollegeMatch(x, colleges) ==
    [ IF Len(colleges) = 0
      THEN finishProcessMessage(sendStatusUpdate(x, "no_match_advice"),
                                generateFallbackAdvice)
      ELSE LET userProfile == x.agent.userProfile
               x1 == sendStatusUpdate(x, "scoring")
               x2 == IF truthy(maxAnnualTuition(userProfile))
                        /\ Len(budgetFiltered(scoreColleges(colleges, userProfile),
                                              userProfile)) = 0
                     THEN sendStatusUpdate(x1, "budget_none")
                     ELSE x1
               x3 == sendStatusUpdate(x2, "generating_report")
           IN  finishProcessMessage(
                   x3, generateCollegeReport(matchedColleges(colleges, userProfile)))
      EXCEPT !.msg.colleges = {Len(colleges)} ]

\* mutant: no result is taken to carry college_data
hasCollegeDataNever(r) == FALSE

\* r => r.college_data
hasCollegeData(r) == "college_data" \in DOMAIN r

\* the colleges of a list of data objects: new College(data), then isValid
collegesOf(datas) ==
    filterSeq([i \in 1..Len(datas) |-> College(datas[i])], isValid)

\* CollegeSearchTool.search from line 538 on: searchResults is what
\* searchUniversities returned
afterSearchUniversities(x, searchResults) ==
    IF Len(searchResults) = 0
    THEN finishCollegeMatch(sendStatusUpdate(x, "no_results_static"),
                            fallbackToStaticData(x.msg.queryParams, x.agent.userProfile))
    ELSE LET directData == filterSeq(searchResults, hasCollegeData)
         IN  IF Len(directData) > 0
             THEN finishCollegeMatch(
                      x, collegesOf([i \in 1..Len(directData) |->
                                        staticCollegeData[directData[i].college_data]]))
             ELSE [sendStatusUpdate(x, "ai_parsing")
                       EXCEPT !.msg.status = "processSearchResultsWithAI"]

\* what the oracle of processSearchResultsWithAI can deliver: an error, or a
\* content that parseCollegeData turns into a list of data objects (the
\* empty list when no strategy parses it), none, some or all of which pass
\* validateCollegeData
QData ==
    [ name |-> <<"Q">>, location |-> <<"P","A">>, ranking |-> 0, tuition |-> 20000,
      acceptance_rate |-> 0, avg_sat |-> 0, avg_gpa |-> 350, majors |-> <<Drama>>,
      description |-> <<>> ]
RData == [QData EXCEPT !.name = <<"R">>, !.tuition = 5000, !.avg_gpa = 0]
NamelessData == [QData EXCEPT !.name = <<>>]
ExtractCollegesOutcomes ==
    { OracleThrew, OracleValue(<<>>), OracleValue(<<NamelessData>>),
      OracleValue(<<QData, NamelessData, RData>>) }

\* parseCollegeData of a parsed array: lines 448-451
parseCollegeData(parsed) ==
    IF Len(parsed) > 0 THEN filterSeq(parsed, validateCollegeData) ELSE <<>>

\* processSearchResultsWithAI resumed when its oracle call settles with o
afterExtractColleges(x, o) ==
    IF o.threw
    THEN finishCollegeMatch(
             sendStatusUpdate([x EXCEPT !.msg.failed = @ \cup {"processSearchResultsWithAI"}],
                              "ai_failed"),
             fallbackToStaticData(x.msg.queryParams, x.agent.userProfile))
    ELSE finishCollegeMatch(x, collegesOf(parseCollegeData(valueOf(o.value))))

\* processCollegeMatch resumed when extractUserInfo settles with o, up to
\* the await of braveSearch: the context, the call it made (if any) and the
\* cache Map of its agent
afterExtractUserInfo(x, o, m, t, nstores) ==
    IF ~o.threw /\ o.value = {}
    THEN [x |-> collegeMatchCatch(x, "updateProfile"), call |-> <<>>, cache |-> m]
    ELSE LET \* from line 978 on: x3 is the context at the call of search, r the
             \* call of searchUniversities it made
             searched(x3, r) ==
                 [ x |-> IF r.call.status = "returned"
                         THEN afterSearchUniversities(x3, r.call.result)
                         ELSE [x3 EXCEPT !.msg.status = "searchUniversities"],
                   call |-> <<r.call>>,
                   cache |-> r.cache ]
             \* lines 960-978: x2 is the context after updateProfile
             search(x2, searchParams, userProfile) ==
                 searched(
                     sendStatusUpdate(
                         sendStatusUpdate(
                             sendStatusUpdate([x2 EXCEPT !.msg.queryParams = searchParams],
                                              "searching"),
                             "building_query"),
                         "querying"),
                     searchUniversitiesEnter(
                         newCall(x.msg.ws, buildSearchQuery(searchParams, userProfile),
                                 t, nstores),
                         m, t))
             \* lines 958-962: u is what updateProfile left and returned
             merged(x1, u) ==
                 search(IF u.updated THEN sendStatusUpdate(x1, "profile_updated") ELSE x1,
                        searchParamsOf(u.userProfile), u.userProfile)
             updatedBy(u) ==
                 merged([x EXCEPT !.agent.userProfile = u.userProfile,
                                  !.msg.failed =
                                      IF o.threw THEN @ \cup {"extractUserInfo"} ELSE @],
                        u)
         IN  updatedBy(updateProfile(x.agent.userProfile,
                                     IF o.threw THEN noInfo ELSE valueOf(o.value)))

\* what the oracle of processGeneralQA can deliver
GeneralQAOutcomes == {OracleThrew, OracleValue([kind |-> "qa_answer"])}

\* processGeneralQA resumed when its oracle call settles with o
afterGeneralQA(x, o) ==
    IF o.threw
    THEN finishProcessMessage([x EXCEPT !.msg.failed = @ \cup {"processGeneralQA"}],
                              generalQAApology)
    ELSE finishProcessMessage(x, valueOf(o.value))

\* the system instruction of processGeneralQA
generalQASystemPrompt == [kind |-> "qa_system_prompt"]

\* processGeneralQA, lines 1160-1164: the messages given to the oracle, built
\* from the conversation history as it is when processGeneralQA is called
generalQAMessages(conversationHistory, message) ==
    <<[role |-> "system", content |-> generalQASystemPrompt]>>
        \o sliceTail(conversationHistory, 4)
        \o <<[role |-> "user", content |-> message]>>

\* processMessage(userMessage) up to its first await of an external call
processMessage(x, userMessage) ==
    LET x1 == [x EXCEPT !.agent.conversationHistory =
                            Append(@, [role |-> "user", content |-> userMessage]),
                        !.msg.began = TRUE]
        intent == detectIntent(userMessage)
    IN  CASE intent = COLLEGE_MATCH ->
               [sendStatusUpdate(x1, "analyzing") EXCEPT !.msg.status = "extractUserInfo"]
          [] intent = ESSAY_REVISE -> finishProcessMessage(x1, essayReply)
          [] intent = SCHEDULE_PLAN -> finishProcessMessage(x1, scheduleReply)
          [] intent = GENERAL_QA ->
               [x1 EXCEPT !.msg.status = "processGeneralQA",
                          !.msg.request =
                              generalQAMessages(x1.agent.conversationHistory, userMessage)]

\* an inbound frame: the text does not parse as JSON, or it parses to an
\* object whose message is absent ({}) or a string
FrameInvalid == [parsed |-> FALSE, message |-> {}]
FrameWithout == [parsed |-> TRUE, message |-> {}]
FrameOf(text) == [parsed |-> TRUE, message |-> {text}]
TextBlank == <<" "," ">>
TextFind == <<" ","F","i","n","d"," ">>
TextHelp == <<"h","e","l","p">>
TextEssay == <<"m","y"," ","e","s","s","a","y">>
TextPlan == <<"p","l","a","n"," ","a","n","d"," ","h","e","l","p">>
Frames ==
    {FrameInvalid, FrameWithout} \cup
    {FrameOf(t) : t \in {TextBlank, TextFind, TextHelp, TextEssay, TextPlan}}

\* mutant: the message is not trimmed before it is tested
onMessageUntrimmed(x, registered) ==
    IF ~x.msg.frame.parsed
    THEN sendError([x EXCEPT !.msg.failed = @ \cup {"JSON.parse"}], "handler_error")
    ELSE LET userMessage == IF x.msg.frame.message = {} THEN <<>>
                            ELSE valueOf(x.msg.frame.message)
         IN  IF userMessage = <<>> THEN sendError(x, "invalid_message")
             ELSE IF registered THEN processMessage(x, userMessage)
             ELSE sendError(x, "agent_not_found")

\* the message listener of lines 1590-1624, up to the first await of an
\* external call; registered tells whether getAgent(ws) finds the agent
onMessage(x, registered) ==
    IF ~x.msg.frame.parsed
    THEN sendError([x EXCEPT !.msg.failed = @ \cup {"JSON.parse"}], "handler_error")
    ELSE LET userMessage == IF x.msg.frame.message = {} THEN <<>>
                            ELSE trim(valueOf(x.msg.frame.message))
         IN  IF userMessage = <<>> THEN sendError(x, "invalid_message")
             ELSE IF registered THEN processMessage(x, userMessage)
             ELSE sendError(x, "agent_not_found")

-----------------------------------------------------------------------------
(* ConnectionManager                                                       *)

maxConnections == 50
connectionTimeout == 1800000

\* mutant: the registry rejects only once it is over its cap
atCapacityOver(connections) == Cardinality(DOMAIN connections) > maxConnections

\* line 760: the registry is full
atCapacity(connections) == Cardinality(DOMAIN connections) >= maxConnections

\* ws.close(code, reason): an open socket starts its closing handshake
wsClose(socket) ==
    IF socket.readyState = "OPEN" THEN [socket EXCEPT !.readyState = "CLOSING"] ELSE socket

\* addConnection(ws, agent) at time t: what it returns (added) and the two
\* Maps it leaves.  A timer is [due, fired].
addConnection(connections, timeouts, ws, agent, t) ==
    IF atCapacity(connections)
    THEN [added |-> FALSE, activeConnections |-> connections, connectionTimeouts |-> timeouts]
    ELSE [ added |-> TRUE,
           activeConnections |-> mapSet(connections, ws, agent),
           connectionTimeouts |->
               mapSet(timeouts, ws, [due |-> t + connectionTimeout, fired |-> FALSE]) ]

\* getAgent(ws) finds an agent
getAgent(connections, ws) == ws \in DOMAIN connections

\* removeConnection(ws): the two Maps and the agents it leaves
removeConnection(connections, timeouts, agentsNow, ws) ==
    [ activeConnections |-> mapDelete(connections, ws),
      connectionTimeouts |-> mapDelete(timeouts, ws),
      \* agent.cleanup()
      agents |-> IF ws \in DOMAIN connections
                 THEN [agentsNow EXCEPT ![connections[ws]].conversationHistory = <<>>]
                 ELSE agentsNow ]

-----------------------------------------------------------------------------
(* The server: connections, frames, and the settling of external calls     *)

\* the context of handler invocation m
Context(m) ==
    [agent |-> agents[msgs[m].ws], socket |-> sockets[msgs[m].ws], msg |-> msgs[m]]

\* mutant: one agent is shared by every connection
CommitShared(x) ==
    /\ agents' = [ws \in DOMAIN agents |-> x.agent]
    /\ sockets' = [sockets EXCEPT ![x.msg.ws] = x.socket]
    /\ msgs' = IF x.msg.id > Len(msgs) THEN Append(msgs, x.msg)
               ELSE [msgs EXCEPT ![x.msg.id] = x.msg]

\* the context x written back
Commit(x) ==
    /\ agents' = [agents EXCEPT ![x.msg.ws] = x.agent]
    /\ sockets' = [sockets EXCEPT ![x.msg.ws] = x.socket]
    /\ msgs' = IF x.msg.id > Len(msgs) THEN Append(msgs, x.msg)
               ELSE [msgs EXCEPT ![x.msg.id] = x.msg]

\* the connection event of lines 1580-1588 for a new socket ws
\* (sockets are numbered in the order they connect)
Connect(ws) ==
    /\ sockets[ws].readyState = "NONE"
    /\ \A earlier \in DOMAIN sockets : earlier < ws => sockets[earlier].readyState # "NONE"
    /\ LET r == addConnection(activeConnections, connectionTimeouts, ws, ws, now)
           opened == [sockets[ws] EXCEPT !.readyState = "OPEN"]
       IN  /\ activeConnections' = r.activeConnections
           /\ connectionTimeouts' = r.connectionTimeouts
           /\ sockets' = [sockets EXCEPT ![ws] =
                             IF r.added THEN [opened EXCEPT !.handlers = TRUE]
                             ELSE wsClose(opened)]
    /\ agents' = [agents EXCEPT ![ws] = newAgent]
    /\ cache' = [cache EXCEPT ![ws] = emptyMap]
    /\ UNCHANGED <<now, calls, stores, scoreVars, msgs, settled>>

\* the socket closes; the close listener runs if it is attached
CloseEvent(ws) ==
    /\ sockets[ws].readyState \in {"OPEN", "CLOSING"}
    /\ sockets' = [sockets EXCEPT ![ws].readyState = "CLOSED"]
    /\ IF sockets[ws].handlers
       THEN LET r == removeConnection(activeConnections, connectionTimeouts, agents, ws)
            IN  /\ activeConnections' = r.activeConnections
                /\ connectionTimeouts' = r.connectionTimeouts
                /\ agents' = r.agents
       ELSE UNCHANGED <<activeConnections, connectionTimeouts, agents>>
    /\ UNCHANGED <<searchVars, scoreVars, msgs, settled>>

\* the socket fails: it starts closing and the error listener runs
ErrorEvent(ws) ==
    /\ sockets[ws].handlers
    /\ sockets[ws].readyState = "OPEN"
    /\ sockets' = [sockets EXCEPT ![ws].readyState = "CLOSING"]
    /\ LET r == removeConnection(activeConnections, connectionTimeouts, agents, ws)
       IN  /\ activeConnections' = r.activeConnections
           /\ connectionTimeouts' = r.connectionTimeouts
           /\ agents' = r.agents
    /\ UNCHANGED <<searchVars, scoreVars, msgs, settled>>

\* the timer of lines 768-771 runs once its delay has passed
TimerFires(ws) ==
    /\ ws \in DOMAIN connectionTimeouts
    /\ ~connectionTimeouts[ws].fired
    /\ now >= connectionTimeouts[ws].due
    /\ connectionTimeouts' = [connectionTimeouts EXCEPT ![ws].fired = TRUE]
    /\ sockets' = [sockets EXCEPT ![ws] = wsClose(@)]
    /\ UNCHANGED <<searchVars, scoreVars, agents, activeConnections, msgs, settled>>

\* a frame arrives on ws: the message listener runs up to its first await of
\* an external call
Receive(ws, frame, max) ==
    /\ sockets[ws].handlers
    /\ sockets[ws].readyState \in {"OPEN", "CLOSING"}
    /\ Len(msgs) < max
    /\ Commit(onMessage([ agent |-> agents[ws], socket |-> sockets[ws],
                          msg |-> newMsg(Len(msgs) + 1, ws, frame, now) ],
                        getAgent(activeConnections, ws)))
    /\ UNCHANGED <<searchVars, scoreVars, activeConnections, connectionTimeouts, settled>>

\* the oracle call of extractUserInfo of invocation m settles with o
ExtractUserInfoSettles(m, o) ==
    /\ msgs[m].status = "extractUserInfo"
    /\ \E ws \in {msgs[m].ws} :
       \E r \in {afterExtractUserInfo(Context(m), o, cache[ws], now, Len(stores))} :
           /\ Commit(IF r.call = <<>> THEN r.x
                     ELSE [r.x EXCEPT !.msg.call = Len(calls) + 1])
           /\ calls' = calls \o r.call
           /\ cache' = [cache EXCEPT ![ws] = r.cache]
    /\ UNCHANGED <<now, stores, scoreVars, activeConnections, connectionTimeouts>>
    /\ settled' = settled + 1

\* the oracle call of processSearchResultsWithAI of invocation m settles
ExtractCollegesSettles(m, o) ==
    /\ msgs[m].status = "processSearchResultsWithAI"
    /\ Commit(afterExtractColleges(Context(m), o))
    /\ UNCHANGED <<searchVars, scoreVars, activeConnections, connectionTimeouts>>
    /\ settled' = settled + 1

\* the oracle call of processGeneralQA of invocation m settles
GeneralQASettles(m, o) ==
    /\ msgs[m].status = "processGeneralQA"
    /\ Commit(afterGeneralQA(Context(m), o))
    /\ UNCHANGED <<searchVars, scoreVars, activeConnections, connectionTimeouts>>
    /\ settled' = settled + 1

\* the handler invocations suspended at call id of searchUniversities
awaiting(id) ==
    {m \in 1..Len(msgs) : msgs[m].call = id /\ msgs[m].status = "searchUniversities"}

\* call r.call of searchUniversities went on; if it returned to a handler
\* invocation, that one resumes
Resume(id, r) ==
    IF r.call.status = "returned" /\ awaiting(id) # {}
    THEN Commit(afterSearchUniversities(Context(CHOOSE m \in awaiting(id) : TRUE),
                                        r.call.result))
    ELSE UNCHANGED <<agents, sockets, msgs>>

-----------------------------------------------------------------------------
(* SpecSearch: callers of one RobustUniversitySearch instance               *)

\* bounds of the search models: the number of searchUniversities calls
MaxCalls == 2
MaxOverlapCalls == 3

\* the instances the callers of SpecSearch use
SearchInstances == {1}

\* what the two external providers can deliver: an error (no credential, a
\* timeout, a non-2xx status, a network error), an empty list, or a list
BraveList == << [title |-> <<"b","1">>, snippet |-> <<"s","1">>, url |-> <<"u","1">>] >>
DuckDuckGoList == << [title |-> <<"d","1">>, snippet |-> <<"s","2">>, url |-> <<>>],
                     [title |-> <<>>, snippet |-> <<"s","3">>, url |-> <<"u","3">>] >>
BraveOutcomes == {Threw, Returned(<<>>), Returned(BraveList)}
DuckDuckGoOutcomes == {Threw, Returned(<<>>), Returned(DuckDuckGoList)}

\* the instants Date.now() is observed at, around the expiry of an entry
\* stored at 0
TimePoints == {0, cacheTimeout - 1, cacheTimeout}

\* the log entry of the setCache a step of call id made, if it made one:
\* the entry of key is new or differs from the one before
storeLog(id, inst, key, before, after) ==
    IF key \in DOMAIN after /\ (key \notin DOMAIN before \/ before[key] # after[key])
    THEN <<[inst |-> inst, key |-> key, data |-> after[key].data,
            at |-> after[key].timestamp, by |-> id]>>
    ELSE <<>>

InitSearch ==
    /\ now = 0
    /\ cache = [i \in SearchInstances |-> emptyMap]
    /\ calls = <<>>
    /\ stores = <<>>
    /\ scored = <<>>
    /\ applied = <<>>
    /\ sockets = emptyMap
    /\ agents = emptyMap
    /\ activeConnections = emptyMap
    /\ connectionTimeouts = emptyMap
    /\ msgs = <<>>
    /\ settled = 0

\* Date.now() advances
Tick(points) ==
    /\ \E t \in points : t > now /\ now' = t
    /\ UNCHANGED <<cache, calls, stores, scoreVars, serverVars, settled>>

\* a caller invokes searchUniversities(query): lines 261-276 up to the await
SearchCall(inst, query, max) ==
    /\ Len(calls) < max
    /\ \E r \in {searchUniversitiesEnter(newCall(inst, query, now, Len(stores)),
                                         cache[inst], now)} :
           /\ calls' = Append(calls, r.call)
           /\ cache' = [cache EXCEPT ![inst] = r.cache]
           /\ stores' = stores \o storeLog(Len(calls) + 1, inst, r.call.cacheKey,
                                            cache[inst], r.cache)
    /\ UNCHANGED <<now, scoreVars, serverVars, settled>>

\* the braveSearch promise of call id settles with o; a handler invocation
\* that awaits the call resumes in the same step
BraveSettles(id, o) ==
    /\ calls[id].status = "brave"
    /\ \E c \in {calls[id]} :
       \E r \in {afterBrave(c, o, cache[c.inst], now)} :
           /\ calls' = [calls EXCEPT ![id] = r.call]
           /\ cache' = [cache EXCEPT ![c.inst] = r.cache]
           /\ stores' = stores \o storeLog(id, c.inst, c.cacheKey, cache[c.inst], r.cache)
           /\ Resume(id, r)
    /\ UNCHANGED <<now, scoreVars, activeConnections, connectionTimeouts>>
    /\ settled' = settled + 1

\* the duckDuckGoSearch promise of call id settles with o; on a failure the
\* static strategy runs in the same step
DuckDuckGoSettles(id, o) ==
    /\ calls[id].status = "duckduckgo"
    /\ \E c \in {calls[id]} :
       \E r \in {afterDuckDuckGo(c, o, cache[c.inst], now)} :
           /\ calls' = [calls EXCEPT ![id] = r.call]
           /\ cache' = [cache EXCEPT ![c.inst] = r.cache]
           /\ stores' = stores \o storeLog(id, c.inst, c.cacheKey, cache[c.inst], r.cache)
           /\ Resume(id, r)
    /\ UNCHANGED <<now, scoreVars, activeConnections, connectionTimeouts>>
    /\ settled' = settled + 1

NextSearch ==
    \/ Tick(TimePoints)
    \/ \E inst \in SearchInstances, query \in Queries : SearchCall(inst, query, MaxCalls)
    \/ \E id \in 1..Len(calls), o \in BraveOutcomes : BraveSettles(id, o)
    \/ \E id \in 1..Len(calls), o \in DuckDuckGoOutcomes : DuckDuckGoSettles(id, o)

SpecSearch == InitSearch /\ [][NextSearch]_vars

\* the same callers, with room for a third call after two overlapping ones
NextSearchOverlap ==
    \/ Tick(TimePoints)
    \/ \E inst \in SearchInstances, query \in Queries :
           SearchCall(inst, query, MaxOverlapCalls)
    \/ \E id \in 1..Len(calls), o \in BraveOutcomes : BraveSettles(id, o)
    \/ \E id \in 1..Len(calls), o \in DuckDuckGoOutcomes : DuckDuckGoSettles(id, o)

SpecSearchOverlap == InitSearch /\ [][NextSearchOverlap]_vars

-----------------------------------------------------------------------------
(* SpecScore: scoreCollege applied to colleges and profiles                *)

\* a college with no optional field, one with a tuition of 1, one whose
\* averages are far from any profile
BareData ==
    [ name |-> <<"X">>, location |-> <<"Y">>, ranking |-> 0, tuition |-> 0,
      acceptance_rate |-> 0, avg_sat |-> 0, avg_gpa |-> 0, majors |-> <<>>,
      description |-> <<>> ]
CheapData == [BareData EXCEPT !.tuition = 1, !.majors = <<Law>>]
FarData == [BareData EXCEPT !.avg_sat = 400, !.avg_gpa = 100, !.tuition = 60000]

ScoreColleges ==
    {College(staticCollegeData[i]) : i \in 1..Len(staticCollegeData)}
    \cup {College(BareData), College(CheapData), College(FarData)}

\* profiles with every field absent or in its range
budgetOf(b) == {[max_annual_tuition |-> b, type |-> "under"]}
ScoreProfiles ==
    { [newUserProfile EXCEPT !.gpa = g, !.sat_score = s, !.major_preference = m,
                             !.location_preference = l, !.budget = b] :
        g \in {{}, {0}, {250}, {400}},
        s \in {{}, {400}, {1450}, {1600}},
        m \in {<<>>, <<ComputerScience>>, <<Drama, Law>>},
        l \in {<<>>, << <<"C","A">> >>, << <<"t","e","x","a","s">> >>},
        b \in {{}, budgetOf(1), budgetOf(10000), budgetOf(57590), budgetOf(90000)} }

InitScore ==
    /\ now = 0
    /\ cache = [i \in SearchInstances |-> emptyMap]
    /\ calls = <<>>
    /\ stores = <<>>
    /\ \E college \in ScoreColleges, userProfile \in ScoreProfiles :
           scored = <<[college |-> college, userProfile |-> userProfile, done |-> FALSE]>>
    /\ applied = <<>>
    /\ sockets = emptyMap
    /\ agents = emptyMap
    /\ activeConnections = emptyMap
    /\ connectionTimeouts = emptyMap
    /\ msgs = <<>>
    /\ settled = 0

\* college.fit_score = scoreCollege(college, userProfile), as in line 988
ScoreCollege ==
    /\ scored # <<>>
    /\ ~scored[1].done
    /\ scored' = <<[scored[1] EXCEPT
                       !.college.fit_score = scoreCollege(scored[1].college,
                                                          scored[1].userProfile),
                       !.done = TRUE]>>
    /\ UNCHANGED <<searchVars, applied, serverVars, settled>>

NextScore == ScoreCollege

SpecScore == InitScore /\ [][NextScore]_vars

\* no scoring dimension has its inputs on both sides
noDimensionApplies(college, userProfile) ==
    /\ ~(truthy(userProfile.gpa) /\ truthy(college.avg_gpa))
    /\ ~(truthy(userProfile.sat_score) /\ truthy(college.avg_sat))
    /\ (userProfile.major_preference = <<>> \/ college.majors = <<>>)
    /\ userProfile.location_preference = <<>>
    /\ (userProfile.budget = {} \/ ~truthy(college.tuition))

\* C10: for a profile whose fields are absent or in range, scoreCollege
\* returns a value in [0,1], and exactly 1/2 when no dimension applies.
C10_FitScoreInUnitInterval ==
    \A k \in 1..Len(scored) :
        LET s == scored[k].college.fit_score
        IN  scored[k].done =>
              /\ s.d > 0
              /\ 0 <= s.n
              /\ s.n <= s.d
              /\ noDimensionApplies(scored[k].college, scored[k].userProfile)
                     => 2 * s.n = s.d

\* C10 witness: all four dimensions apply, the tuition is far under the
\* budget (the affordability sub-score is capped at 1) and the score is
\* strictly inside the interval
C10_Witness ==
    \E k \in 1..Len(scored) :
        LET c == scored[k].college
            u == scored[k].userProfile
        IN  /\ scored[k].done
            /\ truthy(u.gpa) /\ truthy(u.sat_score)
            /\ truthy(c.avg_gpa) /\ truthy(c.avg_sat)
            /\ u.major_preference # <<>> /\ c.majors # <<>>
            /\ u.location_preference # <<>>
            /\ u.budget # {} /\ truthy(c.tuition)
            /\ 2 * valueOf(c.tuition) < valueOf(u.budget).max_annual_tuition
            /\ 0 < c.fit_score.n
            /\ c.fit_score.n < c.fit_score.d

\* the default of 1/2 is returned for a college and profile with no
\* applicable dimension, the profile's gpa being 0
C10_WitnessDefault ==
    \E k \in 1..Len(scored) :
        /\ scored[k].done
        /\ noDimensionApplies(scored[k].college, scored[k].userProfile)
        /\ scored[k].userProfile.gpa = {0}
        /\ scored[k].college.fit_score = [n |-> 1, d |-> 2]

-----------------------------------------------------------------------------
(* SpecProfile: updateProfile applied to a fresh profile, call after call   *)

\* bound: the updateProfile calls made
MaxMerges == 2

\* candidates for the three numeric fields: numbers at and around the ends
\* of each range, and texts and booleans a JSON object can hold in their
\* place
GpaCandidates ==
    { JSNumber(0), JSNumber(350), JSNumber(400), JSNumber(401), JSNumber(0 - 50),
      JSString(<<"3",".","5">>), JSString(<<"4",".","5">>),
      JSString(<<"a","b","c">>), JSBoolean(TRUE) }
SatCandidates ==
    { JSNumber(399), JSNumber(400), JSNumber(1600), JSNumber(1601),
      JSString(<<"1","5","0","0">>), JSString(<<"1","e","3">>),
      JSString(<<" ","9","0","0"," ">>) }
ActCandidates ==
    { JSNumber(0), JSNumber(1), JSNumber(36), JSNumber(37),
      JSString(<<"2","e","1">>), JSString(<<"3","0">>), JSBoolean(TRUE) }

\* candidates for budget.max_annual_tuition: numbers of either sign, texts,
\* a boolean
BudgetCandidates ==
    { JSNumber(10000), JSNumber(0 - 5000), JSNumber(0),
      JSString(<<"2","0","0","0","0">>), JSString(<<"c","h","e","a","p">>),
      JSBoolean(TRUE) }

\* candidates for interests and location_preference: arrays of strings, with
\* entries that differ only in case within one array and across arrays
DramaCapital == <<"D","r","a","m","a">>
LawLower == <<"l","a","w">>
PA == <<"P","A">>
PaLower == <<"p","a">>
TX == <<"T","X">>
InterestCandidates ==
    { <<Drama>>, <<DramaCapital>>, <<Law, LawLower>>, <<LawLower, Drama>>, <<>> }
LocationCandidates == { <<PA>>, <<PaLower, PA>>, <<TX>> }

\* extracted infos with one numeric field outside its range and the other
\* fields valid
MixedInfos ==
    LET valid == [noInfo EXCEPT !.gpa = {JSNumber(350)}, !.sat_score = {JSNumber(1500)},
                                !.act_score = {JSNumber(30)}, !.interests = {<<Law>>},
                                !.budget = {[max_annual_tuition |-> {JSNumber(20000)}]}]
    IN  {[valid EXCEPT !.gpa = {v}] :
             v \in {JSNumber(401), JSNumber(0 - 50), JSString(<<"4",".","5">>)}}
        \cup {[valid EXCEPT !.sat_score = {v}] : v \in {JSNumber(399), JSNumber(1601)}}
        \cup {[valid EXCEPT !.act_score = {v}] : v \in {JSNumber(0), JSNumber(37)}}

\* extracted infos: one field present, or every field present with one
\* numeric field outside its range
ProfileInfos ==
    {[noInfo EXCEPT !.gpa = {v}] : v \in GpaCandidates}
    \cup {[noInfo EXCEPT !.sat_score = {v}] : v \in SatCandidates}
    \cup {[noInfo EXCEPT !.act_score = {v}] : v \in ActCandidates}
    \cup {[noInfo EXCEPT !.budget = {[max_annual_tuition |-> {v}]}] : v \in BudgetCandidates}
    \cup {[noInfo EXCEPT !.budget = {[max_annual_tuition |-> {}]}]}
    \cup {[noInfo EXCEPT !.interests = {v}] : v \in InterestCandidates}
    \cup {[noInfo EXCEPT !.location_preference = {v}] : v \in LocationCandidates}
    \cup MixedInfos

\* state with no connection, no search and nothing scored
InitIdle ==
    /\ now = 0
    /\ cache = emptyMap
    /\ calls = <<>>
    /\ stores = <<>>
    /\ scored = <<>>
    /\ sockets = emptyMap
    /\ agents = emptyMap
    /\ activeConnections = emptyMap
    /\ connectionTimeouts = emptyMap
    /\ msgs = <<>>
    /\ settled = 0

InitProfile == InitIdle /\ applied = <<>>

\* the profile the next updateProfile call finds
currentProfile == IF applied = <<>> THEN newUserProfile ELSE applied[Len(applied)].after

\* this.updateProfile(extractedInfo), as in line 958
UpdateProfile(extractedInfo) ==
    /\ Len(applied) < MaxMerges
    /\ \E u \in {updateProfile(currentProfile, extractedInfo)} :
           applied' = Append(applied, [ extractedInfo |-> extractedInfo,
                                        before |-> currentProfile,
                                        after |-> u.userProfile,
                                        updated |-> u.updated ])
    /\ UNCHANGED <<searchVars, scored, serverVars, settled>>

NextProfile == \E extractedInfo \in ProfileInfos : UpdateProfile(extractedInfo)

SpecProfile == InitProfile /\ [][NextProfile]_vars

\* a nullable field is absent or a number of lo..hi
absentOrWithin(x, lo, hi) == x = {} \/ \A v \in x : v # NaN /\ lo <= v /\ v <= hi

\* a candidate is present and its number is outside lo..hi
outOfRange(x, k, lo, hi) == x # {} /\ \A v \in x : ~between(v, k, lo, hi)

\* C11 (as claimed): after every updateProfile call each of gpa, sat_score
\* and act_score is absent or within its range, and a candidate outside its
\* range leaves the stored value unchanged.
C11_NumericFieldsWithinRange ==
    \A i \in 1..Len(applied) :
        LET a == applied[i]
        IN  /\ absentOrWithin(a.after.gpa, 0, 400)
            /\ absentOrWithin(a.after.sat_score, 400, 1600)
            /\ absentOrWithin(a.after.act_score, 1, 36)
            /\ outOfRange(a.extractedInfo.gpa, 2, 0, 400) => a.after.gpa = a.before.gpa
            /\ outOfRange(a.extractedInfo.sat_score, 0, 400, 1600)
                   => a.after.sat_score = a.before.sat_score
            /\ outOfRange(a.extractedInfo.act_score, 0, 1, 36)
                   => a.after.act_score = a.before.act_score

-----------------------------------------------------------------------------
(* SpecIntent: detectIntent applied to messages                            *)

\* bound: the words of a message
MaxWords == 2

\* the words messages are made of: keywords of each intent, in either
\* letter case, a phrase with two keywords of one intent, and a word that
\* is no keyword
IntentWords ==
    { <<"f","i","n","d">>, <<"C","o","l","l","e","g","e">>, <<"S","E","A","R","C","H">>,
      <<"e","s","s","a","y">>, <<"E","s","s","a","y"," ","w","r","i","t","i","n","g">>,
      <<"p","l","a","n">>, <<"d","e","a","d","l","i","n","e">>,
      <<"h","e","l","p">>, <<"a","d","v","i","c","e">>,
      <<"u00E5","u00BB","u00BA","u00E8","u00AE","u00AE">>,
      <<"a","s","d","f","1","2","3","4">> }

\* the messages of n words or fewer
RECURSIVE MessagesOf(_)
MessagesOf(n) ==
    IF n = 1 THEN IntentWords
    ELSE MessagesOf(n - 1)
         \cup {m \o <<" ">> \o w : m \in MessagesOf(n - 1), w \in IntentWords}

IntentMessages == MessagesOf(MaxWords)

InitIntent == InitIdle /\ applied = <<>>

\* await this.detectIntent(userMessage), as in line 1178
DetectIntent(message) ==
    /\ applied = <<>>
    /\ applied' = <<[message |-> message, intent |-> detectIntent(message)]>>
    /\ UNCHANGED <<searchVars, scored, serverVars, settled>>

NextIntent == \E message \in IntentMessages : DetectIntent(message)

SpecIntent == InitIntent /\ [][NextIntent]_vars

\* the number of keywords of intent that the lowercased message includes
keywordCount(message, intent) ==
    Cardinality({k \in 1..Len(keywordsOf(intent)) :
                    includes(toLowerCase(message), toLowerCase(keywordsOf(intent)[k]))})

AllIntents == {COLLEGE_MATCH, ESSAY_REVISE, SCHEDULE_PLAN, GENERAL_QA}

\* C12: detectIntent returns COLLEGE_MATCH whenever the COLLEGE_MATCH count
\* is non-zero or every count is zero, and otherwise an intent whose count
\* is maximal.
C12_CollegeMatchForcedElseMaximal ==
    \A i \in 1..Len(applied) :
        LET message == applied[i].message
            count == [intent \in AllIntents |-> keywordCount(message, intent)]
        IN  IF count[COLLEGE_MATCH] > 0 \/ \A intent \in AllIntents : count[intent] = 0
            THEN applied[i].intent = COLLEGE_MATCH
            ELSE /\ applied[i].intent \in AllIntents
                 /\ \A intent \in AllIntents : count[intent] <= count[applied[i].intent]

\* C12 witness: COLLEGE_MATCH was returned for a message in which another
\* intent has strictly more keywords
C12_Witness ==
    \E i \in 1..Len(applied) :
        /\ applied[i].intent = COLLEGE_MATCH
        /\ keywordCount(applied[i].message, COLLEGE_MATCH) = 1
        /\ keywordCount(applied[i].message, ESSAY_REVISE) = 2

\* C12 witness of the default: COLLEGE_MATCH was returned for "asdf1234"
C12_WitnessNoKeyword ==
    \E i \in 1..Len(applied) :
        /\ applied[i].intent = COLLEGE_MATCH
        /\ applied[i].message = <<"a","s","d","f","1","2","3","4">>

\* C12 witness of the other case: the later of two intents with the same,
\* maximal count was returned
C12_WitnessTie ==
    \E i \in 1..Len(applied) :
        /\ applied[i].intent = SCHEDULE_PLAN
        /\ keywordCount(applied[i].message, ESSAY_REVISE) = 1
        /\ keywordCount(applied[i].message, SCHEDULE_PLAN) = 1

-----------------------------------------------------------------------------
(* SpecBudget: lines 986-1005 of processCollegeMatch applied to lists of   *)
(* colleges                                                                *)

\* bound: the colleges of a list
MaxListed == 2

\* colleges of four tuitions, one of them without a tuition
BudgetColleges ==
    { College(QData), College(RData), College([BareData EXCEPT !.name = <<"B">>]),
      College([FarData EXCEPT !.name = <<"F">>]) }

\* the lists of n colleges or fewer
RECURSIVE ListsOf(_)
ListsOf(n) ==
    IF n = 0 THEN {<<>>}
    ELSE ListsOf(n - 1)
         \cup {Append(l, c) : l \in {k \in ListsOf(n - 1) : Len(k) = n - 1},
                              c \in BudgetColleges}

\* the colleges of the seed dataset, in its order
seedColleges == [i \in 1..Len(staticCollegeData) |-> College(staticCollegeData[i])]

\* the lists search returns: short ones, and the whole seed dataset
BudgetLists == ListsOf(MaxListed) \cup {seedColleges}

\* profiles without a budget and with budgets below, between and above the
\* tuitions
BudgetProfiles ==
    { [newUserProfile EXCEPT !.budget = b, !.major_preference = m] :
        b \in { {}, budgetOf(1000), budgetOf(5000), budgetOf(10000), budgetOf(16000),
                budgetOf(20000) },
        m \in {<<>>, <<ComputerScience>>} }

InitBudget == InitIdle /\ applied = <<>>

\* lines 986-1008 for the colleges search returned
MatchColleges(colleges, userProfile) ==
    /\ applied = <<>>
    /\ \E recommendations \in {matchedColleges(colleges, userProfile)} :
           applied' = << [ colleges |-> colleges, userProfile |-> userProfile,
                           recommendations |-> recommendations,
                           report |-> generateCollegeReport(recommendations) ] >>
    /\ UNCHANGED <<searchVars, scored, serverVars, settled>>

NextBudget ==
    \E colleges \in BudgetLists, userProfile \in BudgetProfiles :
        MatchColleges(colleges, userProfile)

SpecBudget == InitBudget /\ [][NextBudget]_vars

\* college is within the budget of userProfile, or has no tuition
withinBudget(college, userProfile) ==
    \/ ~truthy(college.tuition)
    \/ valueOf(college.tuition) <= valueOf(maxAnnualTuition(userProfile))

\* no college of the list passes the budget of userProfile
nonePasses(colleges, userProfile) ==
    /\ truthy(maxAnnualTuition(userProfile))
    /\ \A i \in 1..Len(colleges) : ~withinBudget(colleges[i], userProfile)

\* recommendations is the whole list colleges, scored and sorted with the
\* highest fit score first, cut to its first eight
fullListSorted(colleges, userProfile, recommendations) ==
    LET scoredAt(k) ==
            [colleges[k] EXCEPT !.fit_score = scoreCollege(colleges[k], userProfile)]
        recommended(k) ==
            \E i \in 1..Len(recommendations) : recommendations[i] = scoredAt(k)
    IN  /\ Len(recommendations) = IF Len(colleges) < 8 THEN Len(colleges) ELSE 8
        /\ \A i \in 1..Len(recommendations) :
              \E k \in 1..Len(colleges) : recommendations[i] = scoredAt(k)
        /\ \A k \in 1..Len(colleges) :
              \/ recommended(k)
              \/ \A i \in 1..Len(recommendations) :
                     fracLeq(scoredAt(k).fit_score, recommendations[i].fit_score)
        /\ \A i \in 1..(Len(recommendations) - 1) :
              fracLeq(recommendations[i + 1].fit_score, recommendations[i].fit_score)

\* C13: a non-empty list of scored colleges is never reduced to an empty one
\* by the budget filter; when no college passes the budget, the full list is
\* what is sorted and reported (its first eight).
C13_BudgetFilterKeepsFullList ==
    \A i \in 1..Len(applied) :
        LET a == applied[i]
        IN  /\ Len(a.colleges) > 0 => Len(a.recommendations) > 0
            /\ nonePasses(a.colleges, a.userProfile) /\ Len(a.colleges) > 0
                   => fullListSorted(a.colleges, a.userProfile, a.recommendations)

\* C13 witness: two colleges, both above the budget, were both recommended
C13_Witness ==
    \E i \in 1..Len(applied) :
        /\ Len(applied[i].colleges) = 2
        /\ nonePasses(applied[i].colleges, applied[i].userProfile)
        /\ Len(applied[i].recommendations) = 2

\* the seed entries by their position in the dataset: 5 Berkeley, 7 Michigan,
\* 8 Georgia Tech, 9 UT Austin, 10 University of Washington
SeedsUnder16k == {5, 7, 8, 9, 10}

\* the names of the seed entries of a set of positions
seedNames(positions) == {staticCollegeData[i].name : i \in positions}

\* the names of a list of colleges
namesOf(colleges) == {colleges[i].name : i \in 1..Len(colleges)}

\* the seed dataset was matched for a profile with the budget b
seedMatchedUnder(a, b) ==
    /\ a.colleges = seedColleges
    /\ a.userProfile.budget = budgetOf(b)

\* C17 (as claimed): with a profile budget of 10000 and the seed dataset as
\* the candidates, the list after the budget filter holds only the seed
\* entries with a tuition of at most 16000: Berkeley, Michigan, Georgia
\* Tech, UT Austin and University of Washington.
C17_Budget10000KeepsSeedsUnder16k ==
    \A i \in 1..Len(applied) :
        seedMatchedUnder(applied[i], 10000)
            => namesOf(applied[i].recommendations) = seedNames(SeedsUnder16k)

\* C17 (amended): with a profile budget of 10000 and the seed dataset as
\* the candidates, no seed entry passes the budget filter (the lowest seed
\* tuition is 11448), so the list after the filter is the whole seed
\* dataset, of which the eight entries of highest fit score are kept; the
\* entries Berkeley, Michigan, Georgia Tech, UT Austin and University of
\* Washington are what a budget of 16000 leaves.
C17_Budget10000KeepsWholeSeedList ==
    \A i \in 1..Len(applied) :
        LET a == applied[i]
        IN  /\ seedMatchedUnder(a, 10000)
                  => /\ nonePasses(a.colleges, a.userProfile)
                     /\ \A k \in 1..Len(staticCollegeData) :
                           staticCollegeData[k].tuition >= 11448
                     /\ fullListSorted(a.colleges, a.userProfile, a.recommendations)
                     /\ Len(a.recommendations) = 8
            /\ seedMatchedUnder(a, 16000)
                  => /\ namesOf(a.recommendations) = seedNames(SeedsUnder16k)
                     /\ Len(a.recommendations) = 5

\* C17 witness: the seed dataset was matched under a budget of 10000, and
\* Massachusetts Institute of Technology (tuition 57590) is recommended
C17_Witness ==
    \E i \in 1..Len(applied) :
        /\ seedMatchedUnder(applied[i], 10000)
        /\ staticCollegeData[1].name \in namesOf(applied[i].recommendations)
        /\ staticCollegeData[1].tuition = 57590

-----------------------------------------------------------------------------
(* SpecExtract: the two paths of CollegeSearchTool.search that build        *)
(* colleges from data objects, applied to lists of data objects             *)

\* bound: the data objects of a list
MaxRecords == 2

UnknownUniversity ==
    <<"U","n","k","n","o","w","n"," ","U","n","i","v","e","r","s","i","t","y">>
UnknownLocation ==
    <<"U","n","k","n","o","w","n"," ","L","o","c","a","t","i","o","n">>

\* data objects whose name and location are missing (or empty), present, or
\* the strings the constructor puts in place of a missing one, with every
\* other field missing or every other field present
ExtractRecords ==
    { [optional EXCEPT !.name = name, !.location = location] :
        optional \in {BareData, QData},
        name \in {<<>>, <<"Q">>, UnknownUniversity},
        location \in {<<>>, <<"Y">>, UnknownLocation} }

\* the lists of n data objects or fewer
RECURSIVE RecordListsOf(_)
RecordListsOf(n) ==
    IF n = 0 THEN {<<>>}
    ELSE RecordListsOf(n - 1)
         \cup {Append(l, data) : l \in {k \in RecordListsOf(n - 1) : Len(k) = n - 1},
                                 data \in ExtractRecords}

InitExtract == InitIdle /\ applied = <<>>

\* lines 607-608: the oracle's content was parsed to the array parsed
ExtractWithAI(parsed) ==
    /\ applied = <<>>
    /\ applied' = << [ path |-> "processSearchResultsWithAI", datas |-> parsed,
                       colleges |-> collegesOf(parseCollegeData(parsed)) ] >>
    /\ UNCHANGED <<searchVars, scored, serverVars, settled>>

\* line 547: the search results carry the data objects datas
ExtractDirect(datas) ==
    /\ applied = <<>>
    /\ applied' = << [ path |-> "search", datas |-> datas,
                       colleges |-> collegesOf(datas) ] >>
    /\ UNCHANGED <<searchVars, scored, serverVars, settled>>

NextExtract ==
    \E datas \in RecordListsOf(MaxRecords) :
        \/ ExtractWithAI(datas)
        \/ ExtractDirect(datas)

SpecExtract == InitExtract /\ [][NextExtract]_vars

\* the college built from data is in the list colleges
appearsIn(data, colleges) ==
    \E j \in 1..Len(colleges) : colleges[j] = College(data)

\* C14 (as claimed): on both paths a data object with an empty or missing
\* name or location never appears in the list of colleges returned, and a
\* data object with both present is in it, however many optional fields are
\* missing.
C14_OnlyAndAllNamedLocated ==
    \A i \in 1..Len(applied) :
        \A k \in 1..Len(applied[i].datas) :
            LET data == applied[i].datas[k]
            IN  IF data.name = <<>> \/ data.location = <<>>
                THEN ~appearsIn(data, applied[i].colleges)
                ELSE appearsIn(data, applied[i].colleges)

\* C14 (amended): on both paths a data object with an empty or missing name
\* or location never appears in the list of colleges returned, and a data
\* object whose name and location are present and are not the strings
\* 'Unknown University' and 'Unknown Location' is in it, however many
\* optional fields are missing; the list holds nothing else.
C14_OnlyAndAllNamedLocatedButPlaceholders ==
    \A i \in 1..Len(applied) :
        /\ \A k \in 1..Len(applied[i].datas) :
              LET data == applied[i].datas[k]
              IN  /\ data.name = <<>> \/ data.location = <<>>
                        => ~appearsIn(data, applied[i].colleges)
                  /\ (/\ data.name \notin {<<>>, UnknownUniversity}
                      /\ data.location \notin {<<>>, UnknownLocation})
                        => appearsIn(data, applied[i].colleges)
        /\ \A j \in 1..Len(applied[i].colleges) :
              \E k \in 1..Len(applied[i].datas) :
                  /\ applied[i].colleges[j] = College(applied[i].datas[k])
                  /\ applied[i].datas[k].name # <<>>
                  /\ applied[i].datas[k].location # <<>>

\* C14 witness: the direct path was given a data object without a location
\* and one with a name and a location and nothing else, and returned the
\* college of the second alone
C14_Witness ==
    \E i \in 1..Len(applied) :
        /\ applied[i].path = "search"
        /\ applied[i].datas =
               << [QData EXCEPT !.name = <<"Q">>, !.location = <<>>],
                  [BareData EXCEPT !.name = <<"Q">>, !.location = <<"Y">>] >>
        /\ applied[i].colleges =
               << College([BareData EXCEPT !.name = <<"Q">>, !.location = <<"Y">>]) >>

\* C14 witness on the oracle-assisted path
C14_WitnessWithAI ==
    \E i \in 1..Len(applied) :
        /\ applied[i].path = "processSearchResultsWithAI"
        /\ applied[i].datas =
               << [QData EXCEPT !.name = <<>>, !.location = <<"Y">>],
                  [BareData EXCEPT !.name = <<"Q">>, !.location = <<"Y">>] >>
        /\ applied[i].colleges =
               << College([BareData EXCEPT !.name = <<"Q">>, !.location = <<"Y">>]) >>

-----------------------------------------------------------------------------
(* Spec: MaxSockets connections, MaxMsgs frames, no timer and no error     *)

Sockets == 1..MaxSockets

\* the instants Date.now() is observed at, around the end of the delay of a
\* timer set at 0
ServerTimePoints == {0, connectionTimeout - 1, connectionTimeout}

\* the frames and oracle outcomes of Spec
SpecFrames == {FrameInvalid, FrameOf(TextFind), FrameOf(TextHelp), FrameOf(TextEssay)}
SpecInfoOutcomes == {OracleThrew, OracleNull, OracleValue(InfoDrama)}
SpecBraveOutcomes == {Threw, Returned(BraveList)}
SpecDuckDuckGoOutcomes == {Threw, Returned(DuckDuckGoList)}

InitOver(all) ==
    /\ now = 0
    /\ cache = [ws \in all |-> emptyMap]
    /\ calls = <<>>
    /\ stores = <<>>
    /\ scored = <<>>
    /\ applied = <<>>
    /\ sockets = [ws \in all |-> newSocket]
    /\ agents = [ws \in all |-> newAgent]
    /\ activeConnections = emptyMap
    /\ connectionTimeouts = emptyMap
    /\ msgs = <<>>
    /\ settled = 0

Init == InitOver(Sockets)

Next ==
    \/ \E ws \in Sockets : Connect(ws)
    \/ \E ws \in Sockets : CloseEvent(ws)
    \/ \E ws \in Sockets, frame \in SpecFrames : Receive(ws, frame, MaxMsgs)
    \/ \E m \in 1..Len(msgs), o \in SpecInfoOutcomes : ExtractUserInfoSettles(m, o)
    \/ \E id \in 1..Len(calls), o \in SpecBraveOutcomes : BraveSettles(id, o)
    \/ \E id \in 1..Len(calls), o \in SpecDuckDuckGoOutcomes : DuckDuckGoSettles(id, o)
    \/ \E m \in 1..Len(msgs), o \in ExtractCollegesOutcomes : ExtractCollegesSettles(m, o)
    \/ \E m \in 1..Len(msgs), o \in GeneralQAOutcomes : GeneralQASettles(m, o)

Spec == Init /\ [][Next]_vars

-----------------------------------------------------------------------------
(* SpecIdle: one connection with its timer, its errors and the clock       *)

\* bound: the frames the connection of SpecIdle receives
MaxIdleMsgs == 1

OneSocket == 1

NextIdle ==
    \/ Tick(ServerTimePoints)
    \/ Connect(OneSocket)
    \/ CloseEvent(OneSocket)
    \/ ErrorEvent(OneSocket)
    \/ TimerFires(OneSocket)
    \/ \E frame \in SpecFrames : Receive(OneSocket, frame, MaxIdleMsgs)
    \/ \E m \in 1..Len(msgs), o \in SpecInfoOutcomes : ExtractUserInfoSettles(m, o)
    \/ \E id \in 1..Len(calls), o \in SpecBraveOutcomes : BraveSettles(id, o)
    \/ \E id \in 1..Len(calls), o \in SpecDuckDuckGoOutcomes : DuckDuckGoSettles(id, o)
    \/ \E m \in 1..Len(msgs), o \in ExtractCollegesOutcomes : ExtractCollegesSettles(m, o)
    \/ \E m \in 1..Len(msgs), o \in GeneralQAOutcomes : GeneralQASettles(m, o)

SpecIdle == InitOver({OneSocket}) /\ [][NextIdle]_vars

-----------------------------------------------------------------------------
(* FairSpec: one connection that stays open, every frame and every outcome *)
(* of every external call, each awaited call settling                      *)

\* bound: the frames the connection of FairSpec receives
MaxLiveMsgs == 2

\* an awaited external call settles
Settles ==
    \/ \E m \in 1..Len(msgs), o \in ExtractUserInfoOutcomes : ExtractUserInfoSettles(m, o)
    \/ \E id \in 1..Len(calls), o \in BraveOutcomes : BraveSettles(id, o)
    \/ \E id \in 1..Len(calls), o \in DuckDuckGoOutcomes : DuckDuckGoSettles(id, o)
    \/ \E m \in 1..Len(msgs), o \in ExtractCollegesOutcomes : ExtractCollegesSettles(m, o)
    \/ \E m \in 1..Len(msgs), o \in GeneralQAOutcomes : GeneralQASettles(m, o)

NextLive ==
    \/ Connect(OneSocket)
    \/ \E frame \in Frames : Receive(OneSocket, frame, MaxLiveMsgs)
    \/ Settles

\* a handler invocation is suspended at an external call
pending ==
    \E m \in 1..Len(msgs) :
        msgs[m].status \in {"extractUserInfo", "searchUniversities",
                            "processSearchResultsWithAI", "processGeneralQA"}

\* a step of Settles, told by the counter every such step advances.  Under
\* NextLive the steps that advance settled are the steps of Settles, and a
\* step of Settles is possible exactly when pending holds (AwaitedCallOpen),
\* so the weak fairness of SettleStep is the weak fairness of Settles.
SettleStep == pending /\ settled' = settled + 1

\* every external call returns, fails or times out: while a call is awaited,
\* some awaited call settles
FairLive == WF_settled(SettleStep)

FairSpec == InitOver({OneSocket}) /\ [][NextLive]_vars /\ FairLive

\* a handler invocation suspended in searchUniversities awaits a provider
\* call that has not settled
AwaitedCallOpen ==
    \A m \in 1..Len(msgs) :
        msgs[m].status = "searchUniversities"
        => /\ msgs[m].call \in 1..Len(calls)
           /\ calls[msgs[m].call].status \in {"brave", "duckduckgo"}

-----------------------------------------------------------------------------
(* SpecReg: a registry near its cap                                        *)

\* bounds: the slots free at the start, and the sockets that connect beyond
\* the cap
FreeSlots == 2
ExtraSockets == 2
MaxRegMsgs == 1

\* connections made earlier, which stay open and silent
RegBackground == 1..(maxConnections - FreeSlots)
\* the sockets that connect, fail, close and receive
RegForeground == (maxConnections - FreeSlots + 1)..(maxConnections + ExtraSockets)

\* frames whose handling awaits no external call
RegFrames == {FrameInvalid, FrameOf(TextEssay)}

InitReg ==
    /\ now = 0
    /\ cache = [ws \in RegBackground \cup RegForeground |-> emptyMap]
    /\ calls = <<>>
    /\ stores = <<>>
    /\ scored = <<>>
    /\ applied = <<>>
    /\ sockets = [ws \in RegBackground \cup RegForeground |->
                     IF ws \in RegBackground
                     THEN [newSocket EXCEPT !.readyState = "OPEN", !.handlers = TRUE]
                     ELSE newSocket]
    /\ agents = [ws \in RegBackground \cup RegForeground |-> newAgent]
    /\ activeConnections = [ws \in RegBackground |-> ws]
    /\ connectionTimeouts =
           [ws \in RegBackground |-> [due |-> connectionTimeout, fired |-> FALSE]]
    /\ msgs = <<>>
    /\ settled = 0

NextReg ==
    \/ \E ws \in RegForeground : Connect(ws)
    \/ \E ws \in RegForeground : CloseEvent(ws)
    \/ \E ws \in RegForeground : ErrorEvent(ws)
    \/ \E ws \in RegForeground, frame \in RegFrames : Receive(ws, frame, MaxRegMsgs)

SpecReg == InitReg /\ [][NextReg]_vars

-----------------------------------------------------------------------------
(* Claims about the search chain and its cache                             *)

\* a provider outcome that makes the chain go on: an error or an empty list
outcomeFailed(o) == o.threw \/ o.results = <<>>

\* C2: on a cache miss the providers are invoked in the order primary,
\* secondary, static; a provider is invoked only after every earlier one
\* threw or returned an empty list; a failing provider makes the next one be
\* tried; and once a provider delivers a non-empty list no later provider
\* is invoked and the call returns exactly that list.
C2_FirstNonEmptyProviderWins ==
    \A id \in 1..Len(calls) :
        LET c == calls[id]
            n == Len(c.outs)
        IN  ~c.hit =>
              /\ c.tried \in {<<BRAVE>>, <<BRAVE, DUCKDUCKGO>>, <<BRAVE, DUCKDUCKGO, STATIC>>}
              /\ n \in {Len(c.tried) - 1, Len(c.tried)}
              /\ (n = Len(c.tried)) = (c.status = "returned")
              /\ \A j \in 1..n :
                    /\ outcomeFailed(c.outs[j]) /\ j < 3 => Len(c.tried) > j
                    /\ ~outcomeFailed(c.outs[j]) =>
                          /\ Len(c.tried) = j
                          /\ c.status = "returned"
                          /\ c.result = c.outs[j].results

\* C2 witness: the second provider won after the first failed, and the
\* third was not invoked
C2_Witness ==
    \E id \in 1..Len(calls) :
        /\ calls[id].status = "returned"
        /\ calls[id].tried = <<BRAVE, DUCKDUCKGO>>
        /\ calls[id].result = DuckDuckGoList

\* C3: a getFromCache lookup (made on entry to searchUniversities) returns
\* the stored data iff an entry exists for the key with now - timestamp <
\* 600000; otherwise it returns nothing and the key has no entry right after.
C3_LookupFreshOrEvicted ==
    [][ Len(calls') = Len(calls) + 1 =>
          LET c == calls'[Len(calls')]
              m == cache[c.inst]
              fresh == c.cacheKey \in DOMAIN m
                       /\ now - m[c.cacheKey].timestamp < 600000
          IN  /\ c.hit = fresh
              /\ c.hit => c.result = m[c.cacheKey].data /\ cache' = cache
              /\ ~c.hit => c.cacheKey \notin DOMAIN cache'[c.inst] ]_vars

\* C3 witness: a lookup made exactly 600000 ms after the store of its key
\* missed, and one made 599999 ms after a store hit
C3_Witness ==
    /\ \E id \in 1..Len(calls), s \in 1..Len(stores) :
          /\ calls[id].nstores >= s /\ stores[s].key = calls[id].cacheKey
          /\ calls[id].at - stores[s].at = cacheTimeout
          /\ ~calls[id].hit

\* C3 witness of the fresh side
C3_WitnessHit ==
    \E id \in 1..Len(calls), s \in 1..Len(stores) :
        /\ calls[id].nstores >= s /\ stores[s].key = calls[id].cacheKey
        /\ calls[id].at - stores[s].at = cacheTimeout - 1
        /\ calls[id].hit

\* C4 (as claimed): every setCache is made under the lowercased query with
\* the result of the call that made it, and every call made after a store,
\* with the same lowercased query and less than 10 minutes after it, returns
\* the stored list without invoking a provider.
C4_LaterCallReturnsStoredList ==
    /\ \A s \in 1..Len(stores) :
          /\ stores[s].key = toLowerCase(calls[stores[s].by].query)
          /\ stores[s].data = calls[stores[s].by].result
    /\ \A s \in 1..Len(stores), id \in 1..Len(calls) :
          (/\ calls[id].nstores >= s
           /\ calls[id].inst = stores[s].inst
           /\ calls[id].cacheKey = stores[s].key
           /\ calls[id].at - stores[s].at < cacheTimeout)
          => /\ calls[id].hit
             /\ calls[id].tried = <<>>
             /\ calls[id].result = stores[s].data

\* C5: a call whose three providers all threw or returned an empty list
\* returns the empty list, raises nothing, and made no setCache.
C5_AllFailedReturnsEmpty ==
    \A id \in 1..Len(calls) :
        LET c == calls[id]
        IN  /\ c.status # "raised"
            /\ (Len(c.outs) = 3 /\ \A j \in 1..3 : outcomeFailed(c.outs[j])) =>
                  /\ c.status = "returned"
                  /\ c.result = <<>>
                  /\ \A s \in 1..Len(stores) : stores[s].by # id

\* C5 witness: a call whose providers all failed has returned, one of them
\* by throwing
C5_Witness ==
    \E id \in 1..Len(calls) :
        /\ calls[id].status = "returned"
        /\ Len(calls[id].outs) = 3
        /\ \A j \in 1..3 : outcomeFailed(calls[id].outs[j])
        /\ calls[id].outs[1] = Threw

-----------------------------------------------------------------------------
(* Claims about connections and the handling of frames                     *)

\* C1 (as claimed): within one connection, processMessage never begins for
\* a later message before the ai_response of an earlier message of the same
\* socket has been sent.
C1_BeginsAfterEarlierResponse ==
    \A m1 \in 1..Len(msgs), m2 \in 1..Len(msgs) :
        (/\ m1 < m2
         /\ msgs[m1].ws = msgs[m2].ws
         /\ msgs[m1].began
         /\ msgs[m2].began)
        => msgs[m1].final = "ai_response"

\* C6 (as claimed): the cache is shared across connections: a search made
\* for one connection after a store made for another connection, with the
\* same key and less than 10 minutes later, is a cache hit.
C6_HitAcrossConnections ==
    \A s \in 1..Len(stores), id \in 1..Len(calls) :
        (/\ calls[id].nstores >= s
         /\ calls[id].inst # stores[s].inst
         /\ calls[id].cacheKey = stores[s].key
         /\ calls[id].at - stores[s].at < cacheTimeout)
        => calls[id].hit

\* C7: every frame received on a connection that stays open is eventually
\* answered by a final frame of type ai_response or error sent for it,
\* whatever its external calls deliver.
C7_EveryFrameAnswered ==
    \A i \in 1..MaxLiveMsgs :
        (Len(msgs) >= i)
        ~> (Len(msgs) >= i /\ msgs[i].final \in {"ai_response", "error"})

\* C7 witness: on an open socket, a frame whose extractUserInfo oracle
\* failed, whose first provider threw and whose extraction oracle failed
\* was answered by an ai_response
C7_Witness ==
    \E m \in 1..Len(msgs) :
        /\ msgs[m].final = "ai_response"
        /\ sockets[msgs[m].ws].readyState = "OPEN"
        /\ {"extractUserInfo", "processSearchResultsWithAI"} \subseteq msgs[m].failed
        /\ calls[msgs[m].call].outs[1] = Threw

\* C7 witness of the error side: an unparseable frame was answered by an
\* error frame
C7_WitnessError ==
    \E m \in 1..Len(msgs) :
        /\ msgs[m].final = "error"
        /\ "JSON.parse" \in msgs[m].failed

\* C8: the registry never holds more than 50 agents; a socket that connects
\* when the registry holds 50 is closed, is not registered and gets no
\* listener, and stays so; a frame is only ever received by a socket whose
\* listeners are attached.
C8_RegistryWithinCap ==
    [][ /\ Cardinality(DOMAIN activeConnections') <= 50
        /\ \A ws \in DOMAIN sockets :
              /\ (/\ sockets[ws].readyState = "NONE"
                  /\ sockets'[ws].readyState # "NONE"
                  /\ Cardinality(DOMAIN activeConnections) >= 50)
                 => /\ sockets'[ws].readyState = "CLOSING"
                    /\ ~sockets'[ws].handlers
                    /\ activeConnections' = activeConnections
              /\ (sockets[ws].readyState # "NONE" /\ ~sockets[ws].handlers)
                 => /\ ~sockets'[ws].handlers
                    /\ ws \notin DOMAIN activeConnections'
        /\ Len(msgs') > Len(msgs) => sockets[msgs'[Len(msgs')].ws].handlers ]_vars

\* C8 witness: the registry holds 50 agents and a socket that connected
\* since is closing with no listener
C8_Witness ==
    /\ Cardinality(DOMAIN activeConnections) = maxConnections
    /\ \E ws \in DOMAIN sockets :
          /\ sockets[ws].readyState = "CLOSING"
          /\ ~sockets[ws].handlers
          /\ ws \notin DOMAIN activeConnections

\* C8 witness of the reuse of a slot: a socket was registered after an
\* earlier one was rejected
C8_WitnessReuse ==
    \E early \in DOMAIN sockets, late \in DOMAIN activeConnections :
        /\ early < late
        /\ sockets[early].readyState # "NONE"
        /\ ~sockets[early].handlers

\* the time of the last inbound frame of ws, or of its connection
lastInbound(ws) ==
    LET times == {msgs[m].at : m \in {k \in 1..Len(msgs) : msgs[k].ws = ws}}
                 \cup {connectionTimeouts[ws].due - connectionTimeout}
    IN  CHOOSE t \in times : \A u \in times : u <= t

\* C9 (as claimed): the timeout closes a connection only when no inbound
\* frame was received on it for 30 minutes.
C9_TimeoutOnlyWhenIdle ==
    [][ \A ws \in (DOMAIN connectionTimeouts) \cap (DOMAIN connectionTimeouts') :
            (~connectionTimeouts[ws].fired /\ connectionTimeouts'[ws].fired)
            => now - lastInbound(ws) >= 1800000 ]_vars

-----------------------------------------------------------------------------
(* Claims about the college-match flow                                     *)

\* the oracle of processSearchResultsWithAI failed: it threw, or its
\* content gave no data object that passes validation (an unparseable
\* content gives none)
extractionFailed(o) ==
    o.threw \/ collegesOf(parseCollegeData(valueOf(o.value))) = <<>>

\* the reply processCollegeMatch gives for the colleges that filtering the
\* static data by the search parameters of x yields
replyFromStaticData(x) ==
    LET colleges == fallbackToStaticData(x.msg.queryParams, x.agent.userProfile)
    IN  IF Len(colleges) = 0 THEN generateFallbackAdvice
        ELSE generateCollegeReport(matchedColleges(colleges, x.agent.userProfile))

\* the last entry of the conversation history of the agent of ws
lastReply(history) == history[Len(history)].content

\* C15: whenever the oracle-assisted extraction fails (the oracle call
\* errors, its response is unparseable, or no record passes validation),
\* the college-match flow goes on with the static data filtered by the
\* profile: the reply is the one made from that list, not the one for an
\* empty list of colleges.
C15_ExtractionFailureFallsBackToStatic ==
    [][\A m \in 1..Len(msgs), o \in ExtractCollegesOutcomes :
          ExtractCollegesSettles(m, o) /\ extractionFailed(o)
              => lastReply(agents'[msgs[m].ws].conversationHistory)
                     = replyFromStaticData(Context(m))]_vars

-----------------------------------------------------------------------------
(* SpecStatic: one open connection asking for college matches, the oracle  *)
(* finding the major "computer science", another major or nothing in the   *)
(* message, every outcome of both providers                                *)

\* bound: the frames the connection of SpecStatic receives
MaxStaticMsgs == 2

StaticInfoOutcomes ==
    {OracleThrew, OracleValue(InfoComputerScience), OracleValue(InfoDrama)}

NextStatic ==
    \/ Connect(OneSocket)
    \/ Receive(OneSocket, FrameOf(TextFind), MaxStaticMsgs)
    \/ \E m \in 1..Len(msgs), o \in StaticInfoOutcomes : ExtractUserInfoSettles(m, o)
    \/ \E id \in 1..Len(calls), o \in BraveOutcomes : BraveSettles(id, o)
    \/ \E id \in 1..Len(calls), o \in DuckDuckGoOutcomes : DuckDuckGoSettles(id, o)
    \/ \E m \in 1..Len(msgs), o \in ExtractCollegesOutcomes : ExtractCollegesSettles(m, o)

SpecStatic == InitOver({OneSocket}) /\ [][NextStatic]_vars

\* the seed entries by their position in the dataset: 1 MIT, 2 Stanford,
\* 5 Berkeley, 6 Carnegie Mellon, 8 Georgia Tech, 10 University of Washington
SeedsClaimedForComputerScience == {1, 2, 5, 6, 8, 10}

\* every seed entry but 3, Harvard: 4 California Institute of Technology and
\* 9 UT Austin have the major too, and the description of 7, Michigan, has
\* the query's word "programs"
SeedsMatchingComputerScienceQuery == {1, 2, 4, 5, 6, 7, 8, 9, 10}

\* call id of searchUniversities, for a query containing "computer science",
\* returned what the static search found after both providers failed
staticAnswered(id) ==
    /\ calls[id].status = "returned"
    /\ ~calls[id].hit
    /\ calls[id].tried = <<BRAVE, DUCKDUCKGO, STATIC>>
    /\ includes(toLowerCase(calls[id].query), ComputerScience)

\* the seed entries call id returned
seedsReturned(id) == {calls[id].result[j].college_data : j \in 1..Len(calls[id].result)}

\* the final frames sent for handler invocation m
repliesTo(m) ==
    {f \in {sockets[msgs[m].ws].sent[j] : j \in 1..Len(sockets[msgs[m].ws].sent)} :
        f.re = m /\ f.type = "ai_response"}

\* the reply to m is one report, of colleges among those of positions, in
\* descending order of fit score
reportedByFit(m, positions) ==
    /\ Cardinality(repliesTo(m)) = 1
    /\ \A f \in repliesTo(m) :
          /\ f.message.kind = "report"
          /\ \A j \in 1..Len(f.message.entries) :
                f.message.entries[j].name \in seedNames(positions)
          /\ \A j \in 1..(Len(f.message.entries) - 1) :
                fracLeq(f.message.entries[j + 1].fit_score, f.message.entries[j].fit_score)

\* the handler invocations that were given the result of call id and are done
answeredFrom(id) == {m \in 1..Len(msgs) : msgs[m].call = id /\ msgs[m].status = "done"}

\* C16 (as claimed): when both providers fail or return nothing, the static
\* search for a query containing "computer science" returns exactly MIT,
\* Stanford, Carnegie Mellon, Berkeley, Georgia Tech and University of
\* Washington, and they are reported ranked by fit score.
C16_StaticSearchReturnsSixSeeds ==
    \A id \in 1..Len(calls) :
        staticAnswered(id)
            => /\ seedsReturned(id) = SeedsClaimedForComputerScience
               /\ \A m \in answeredFrom(id) : reportedByFit(m, SeedsClaimedForComputerScience)

\* C16 (amended): when both providers fail or return nothing, the static
\* search for the query built from the major "computer science" returns
\* every seed entry that contains any one word of the query: all of them but
\* Harvard, nine entries in the order of the dataset; the eight of highest
\* fit score are reported, ranked by fit score.
C16_StaticSearchReturnsAllButHarvard ==
    \A id \in 1..Len(calls) :
        staticAnswered(id)
            => /\ seedsReturned(id) = SeedsMatchingComputerScienceQuery
               /\ Len(calls[id].result) = 9
               /\ \A j \in 1..(Len(calls[id].result) - 1) :
                     calls[id].result[j].college_data < calls[id].result[j + 1].college_data
               /\ \A m \in answeredFrom(id) :
                     /\ reportedByFit(m, SeedsMatchingComputerScienceQuery)
                     /\ \A f \in repliesTo(m) : Len(f.message.entries) = 8

\* C16 witness: both providers failed, the static search answered a query
\* containing "computer science", and the report was sent
C16_Witness ==
    \E id \in 1..Len(calls) :
        /\ staticAnswered(id)
        /\ calls[id].outs[1].threw
        /\ calls[id].outs[2].results = <<>>
        /\ \E m \in answeredFrom(id) :
              \E f \in repliesTo(m) :
                  f.message.kind = "report" /\ Len(f.message.entries) = 8

-----------------------------------------------------------------------------
(* Claims about the turn of a message                                      *)

\* the handler invocations that this step starts and that enter processMessage
turnsBegun == {m \in 1..Len(msgs') : m > Len(msgs) /\ msgs'[m].began}

\* C18: every message turn goes from IDLE to EXTRACT_INFO before its intent
\* is detected and handled: a message that enters processMessage is first
\* given to extractUserInfo, whose result is merged into the profile,
\* whatever intent handler it is then routed to; no turn reaches its handler
\* or its reply without that.
C18_ExtractionBeforeIntent ==
    [][\A m \in turnsBegun : msgs'[m].status = "extractUserInfo"]_vars

-----------------------------------------------------------------------------
(* FairIdle: SpecIdle with every awaited external call settling            *)

FairIdle == SpecIdle /\ FairLive

\* handler invocation m is suspended at an external call
inFlight(m) ==
    msgs[m].status \in {"extractUserInfo", "searchUniversities",
                        "processSearchResultsWithAI", "processGeneralQA"}

\* the socket of handler invocation m is closing or closed
socketGone(m) == sockets[msgs[m].ws].readyState \in {"CLOSING", "CLOSED"}

\* C19: if a connection closes while a message is being processed, the
\* processing chain runs to completion without raising an error (no call of
\* ws.send is made on the socket), and no frame is sent on the socket after
\* it has closed.
C19_ClosedMidFlightCompletesSilently ==
    /\ [][\A m \in 1..Len(msgs) :
             inFlight(m) /\ socketGone(m)
                 => /\ sockets'[msgs[m].ws].sent = sockets[msgs[m].ws].sent
                    /\ msgs'[m].failed \subseteq
                           {"extractUserInfo", "updateProfile",
                            "processSearchResultsWithAI", "processGeneralQA"}
                    /\ msgs'[m].final = "none"
                    /\ inFlight(m)' \/ msgs'[m].status = "done"]_vars
    /\ \A m \in 1..MaxIdleMsgs :
          (m <= Len(msgs) /\ inFlight(m) /\ socketGone(m))
              ~> (m <= Len(msgs) /\ msgs[m].status = "done" /\ msgs[m].final = "none")

\* C19 witness: a handler invocation that entered processMessage is done on
\* a closed socket, having sent no final frame
C19_Witness ==
    \E m \in 1..Len(msgs) :
        /\ msgs[m].began
        /\ msgs[m].status = "done"
        /\ msgs[m].final = "none"
        /\ sockets[msgs[m].ws].readyState = "CLOSED"
        /\ msgs[m].call > 0

\* the connection of ws was registered and has been cleaned up:
\* removeConnection ran for it
cleanedUp(ws) == sockets[ws].handlers /\ ws \notin DOMAIN activeConnections

\* C20: once a connection has been cleaned up (after a close, an error or a
\* timeout), the registry holds neither an agent nor a timer for it, and the
\* conversation history of its agent is empty, in every later state, also
\* when a message of the connection was in flight at the cleanup.
C20_CleanedUpStaysClean ==
    \A ws \in DOMAIN sockets :
        cleanedUp(ws)
            => /\ ws \notin DOMAIN connectionTimeouts
               /\ agents[ws].conversationHistory = <<>>

-----------------------------------------------------------------------------
(* Claims about the profile merge, under SpecProfile                       *)

\* C21 (as claimed): after every updateProfile call, profile.budget is absent
\* or its max_annual_tuition is a positive number and its type is "under".
C21_BudgetAbsentOrPositiveUnder ==
    \A i \in 1..Len(applied) :
        \A b \in applied[i].after.budget :
            /\ b.max_annual_tuition # NaN
            /\ b.max_annual_tuition > 0
            /\ b.type = "under"

\* no two entries of a list are equal when lowercased
caseDistinct(list) ==
    \A i, j \in 1..Len(list) : i # j => toLowerCase(list[i]) # toLowerCase(list[j])

\* list a is the beginning of list b
isPrefixOf(a, b) == Len(a) <= Len(b) /\ SubSeq(b, 1, Len(a)) = a

\* C22 (as claimed): after every updateProfile call, major_preference and
\* location_preference each hold no two entries equal ignoring case, also
\* when one extracted array holds such entries; the entries that were there
\* keep their places and the new ones come after them.
C22_PreferencesDistinctIgnoringCase ==
    \A i \in 1..Len(applied) :
        LET a == applied[i]
        IN  /\ caseDistinct(a.after.major_preference)
            /\ caseDistinct(a.after.location_preference)
            /\ isPrefixOf(a.before.major_preference, a.after.major_preference)
            /\ isPrefixOf(a.before.location_preference, a.after.location_preference)

\* a candidate that is a JSON number is merged when it lies in lo..hi and
\* leaves the field as it was otherwise
mergedIffWithin(candidate, lo, hi, before, after) ==
    \A v \in candidate :
        isJSNumber(v) => IF lo <= v.number /\ v.number <= hi
                         THEN after = {v.number}
                         ELSE after = before

\* C25 (as claimed): a candidate gpa, sat_score or act_score is merged into
\* the profile if and only if it lies within its inclusive range (0.0 to 4.0,
\* 400 to 1600, 1 to 36), the boundary values included.
C25_MergedIffWithinRange ==
    \A i \in 1..Len(applied) :
        LET a == applied[i]
        IN  /\ mergedIffWithin(a.extractedInfo.gpa, 0, 400, a.before.gpa, a.after.gpa)
            /\ mergedIffWithin(a.extractedInfo.sat_score, 400, 1600,
                               a.before.sat_score, a.after.sat_score)
            /\ mergedIffWithin(a.extractedInfo.act_score, 1, 36,
                               a.before.act_score, a.after.act_score)

\* the fields of an extracted info, apart from the numeric field named skip,
\* that hold a valid value are in the profile after the call: a JSON number
\* of its range, every entry of an array (in some letter case), a budget that
\* is a positive JSON number
othersMerged(a, skip) ==
    LET e == a.extractedInfo
        numberMerged(candidate, lo, hi, after) ==
            \A v \in candidate :
                (isJSNumber(v) /\ v.number # 0 /\ lo <= v.number /\ v.number <= hi)
                    => after = {v.number}
        entriesMerged(candidate, after) ==
            \A v \in candidate :
                \A k \in 1..Len(v) :
                    \E j \in 1..Len(after) : toLowerCase(after[j]) = toLowerCase(v[k])
    IN  /\ skip # "gpa" => numberMerged(e.gpa, 0, 400, a.after.gpa)
        /\ skip # "sat_score" => numberMerged(e.sat_score, 400, 1600, a.after.sat_score)
        /\ skip # "act_score" => numberMerged(e.act_score, 1, 36, a.after.act_score)
        /\ entriesMerged(e.interests, a.after.major_preference)
        /\ entriesMerged(e.location_preference, a.after.location_preference)
        /\ \A b \in e.budget :
               \A v \in b.max_annual_tuition :
                   (isJSNumber(v) /\ v.number > 0)
                       => a.after.budget = {[max_annual_tuition |-> v.number,
                                             type |-> "under"]}

\* a candidate is a JSON number outside lo..hi
numberOutside(candidate, lo, hi) ==
    candidate # {} /\ \A v \in candidate : isJSNumber(v) /\ (v.number < lo \/ v.number > hi)

\* an extracted info holds an array, or a positive JSON number as budget
holdsArrayOrBudget(e) ==
    \/ e.interests # {}
    \/ e.location_preference # {}
    \/ \E b \in e.budget : \E v \in b.max_annual_tuition : isJSNumber(v) /\ v.number > 0

\* C27: a numeric field outside its range is dropped, the profile keeping the
\* value it had, and the other fields of the same extracted info are merged
\* all the same; the call returns (true when an array or a budget came with
\* it), it raises nothing.
C27_OutOfRangeFieldDropsAlone ==
    \A i \in 1..Len(applied) :
        LET a == applied[i]
            e == a.extractedInfo
        IN  /\ numberOutside(e.gpa, 0, 400)
                   => /\ a.after.gpa = a.before.gpa
                      /\ othersMerged(a, "gpa")
                      /\ holdsArrayOrBudget(e) => a.updated
            /\ numberOutside(e.sat_score, 400, 1600)
                   => /\ a.after.sat_score = a.before.sat_score
                      /\ othersMerged(a, "sat_score")
                      /\ holdsArrayOrBudget(e) => a.updated
            /\ numberOutside(e.act_score, 1, 36)
                   => /\ a.after.act_score = a.before.act_score
                      /\ othersMerged(a, "act_score")
                      /\ holdsArrayOrBudget(e) => a.updated

\* C27 witness: a profile with the gpa 3.5 is given a gpa of 4.01 together
\* with a sat_score, an interest and a budget; it keeps 3.5 and takes the
\* other three.
C27_Witness ==
    \E i \in 1..Len(applied) :
        LET a == applied[i]
        IN  /\ a.before.gpa = {350}
            /\ a.before.sat_score = {}
            /\ a.extractedInfo.gpa = {JSNumber(401)}
            /\ a.extractedInfo.sat_score = {JSNumber(1500)}
            /\ a.after.gpa = {350}
            /\ a.after.sat_score = {1500}
            /\ a.after.major_preference = <<Law>>
            /\ a.after.budget = {[max_annual_tuition |-> 20000, type |-> "under"]}
            /\ a.updated

-----------------------------------------------------------------------------
(* SpecAccum: one connection receiving messages of every intent, the oracle *)
(* extracting scores, a budget, majors, nothing, or failing; both providers *)
(* failing, so that every search is answered from the seed data; the client *)
(* sends a message once the one before is answered                          *)

\* bound: the frames the connection of SpecAccum receives
MaxAccumMsgs == 3

AccumInfoOutcomes ==
    {OracleThrew, OracleNull}
    \cup {OracleValue(i) : i \in {noInfo, InfoBudget, InfoScores, InfoDrama, InfoLaw}}
TextSchedule == <<"m","y"," ","p","l","a","n">>
AccumFrames == {FrameOf(t) : t \in {TextFind, TextHelp, TextEssay, TextSchedule}}

NextAccum ==
    \/ Connect(OneSocket)
    \/ CloseEvent(OneSocket)
    \/ /\ \A m \in 1..Len(msgs) : msgs[m].status = "done"
       /\ \E frame \in AccumFrames : Receive(OneSocket, frame, MaxAccumMsgs)
    \/ \E m \in 1..Len(msgs), o \in AccumInfoOutcomes : ExtractUserInfoSettles(m, o)
    \/ \E id \in 1..Len(calls) : BraveSettles(id, Threw)
    \/ \E id \in 1..Len(calls) : DuckDuckGoSettles(id, Threw)
    \/ \E m \in 1..Len(msgs), o \in GeneralQAOutcomes : GeneralQASettles(m, o)

SpecAccum == InitOver({OneSocket}) /\ [][NextAccum]_vars

\* profile q holds what profile p held: no number and no budget of p is
\* absent from q, and the lists of p are the beginnings of the lists of q
accumulates(p, q) ==
    /\ p.gpa # {} => q.gpa # {}
    /\ p.sat_score # {} => q.sat_score # {}
    /\ p.act_score # {} => q.act_score # {}
    /\ p.budget # {} => q.budget # {}
    /\ isPrefixOf(p.major_preference, q.major_preference)
    /\ isPrefixOf(p.location_preference, q.location_preference)

\* C26: no step of the server (a frame of any intent, the settling of any
\* call, the close of the connection) takes a gpa, sat_score, act_score or
\* budget away from an agent's profile, or removes or moves an entry of its
\* major_preference or location_preference: the lists only grow at the end.
C26_ProfileOnlyAccumulates ==
    [][\A ws \in DOMAIN agents :
           accumulates(agents[ws].userProfile, agents'[ws].userProfile)]_vars

\* C26 witness: the connection's profile got its gpa and budget from a first
\* message, two majors from a later one, and holds them all after a message of
\* another intent was answered.
C26_Witness ==
    \E m1, m2, m3 \in 1..Len(msgs) :
        /\ m1 < m2 /\ m2 < m3
        /\ msgs[m1].frame = FrameOf(TextFind) /\ msgs[m1].status = "done"
        /\ msgs[m2].frame = FrameOf(TextFind) /\ msgs[m2].status = "done"
        /\ msgs[m3].frame = FrameOf(TextEssay) /\ msgs[m3].status = "done"
        /\ agents[OneSocket].userProfile.gpa = {380}
        /\ agents[OneSocket].userProfile.budget
               = {[max_annual_tuition |-> 10000, type |-> "under"]}
        /\ agents[OneSocket].userProfile.location_preference = << <<"P","A">> >>
        /\ agents[OneSocket].userProfile.major_preference = <<Law, Drama>>

-----------------------------------------------------------------------------
(* Claims about the conversation history, under SpecAccum                   *)

\* two lists of messages hold the same roles and contents
sameEntries(s, t) ==
    /\ Len(s) = Len(t)
    /\ \A i \in 1..Len(s) : s[i].role = t[i].role /\ s[i].content = t[i].content

\* the turns this step starts and hands to processGeneralQA
generalQABegun == {m \in turnsBegun : msgs'[m].status = "processGeneralQA"}

\* the turns whose oracle call of processGeneralQA delivers in this step
generalQAAnswered ==
    {m \in 1..Len(msgs) : /\ msgs[m].status = "processGeneralQA"
                          /\ msgs'[m].status = "done"
                          /\ "processGeneralQA" \notin msgs'[m].failed}

\* C24 (as claimed): the oracle request of a GENERAL_QA message is the system
\* instruction, the last four entries the conversation history held before
\* the message, and the message once; and what the oracle answers is the
\* reply, recorded and sent as it is.
C24_GeneralQARequestAndReply ==
    [][/\ \A m \in generalQABegun :
              sameEntries(
                  msgs'[m].request,
                  <<[role |-> "system", content |-> generalQASystemPrompt]>>
                      \o sliceTail(agents[msgs'[m].ws].conversationHistory, 4)
                      \o <<[role |-> "user",
                            content |-> trim(valueOf(msgs'[m].frame.message))]>>)
       /\ \A m \in generalQAAnswered :
              LET ws == msgs[m].ws
                  reply == lastReply(agents'[ws].conversationHistory)
              IN  /\ \E o \in GeneralQAOutcomes : ~o.threw /\ o.value = {reply}
                  /\ sockets[ws].readyState = "OPEN"
                         => sockets'[ws].sent
                                = Append(sockets[ws].sent,
                                         [type |-> "ai_response", message |-> reply,
                                          re |-> m])]_vars

-----------------------------------------------------------------------------
(* SpecCatch: SpecAccum's connection with a ws.send that can throw on an     *)
(* open socket.  Every call processMessage awaits catches its own errors,   *)
(* so an exception reaches the catch of processMessage only from a send:    *)
(* the status update in the catch of processCollegeMatch (line 1012), made  *)
(* before the response is recorded, or sendResponse (line 1220), made after *)

\* bound: the frames the connection of SpecCatch receives
MaxCatchMsgs == 2

\* extractUserInfo delivers null, updateProfile throws on it (line 876), the
\* catch of processCollegeMatch runs and its ws.send throws
CollegeMatchCatchThrows(m) ==
    /\ msgs[m].status = "extractUserInfo"
    /\ sockets[msgs[m].ws].readyState = "OPEN"
    /\ Commit(processMessageCatch(
                  [Context(m) EXCEPT !.msg.failed = @ \cup {"updateProfile", "ws.send"}]))
    /\ UNCHANGED <<searchVars, scoreVars, activeConnections, connectionTimeouts>>
    /\ settled' = settled + 1

\* the oracle call of processGeneralQA settles with o, the response is
\* recorded and the ws.send of sendResponse throws
SendResponseThrows(m, o) ==
    /\ msgs[m].status = "processGeneralQA"
    /\ sockets[msgs[m].ws].readyState = "OPEN"
    /\ Commit(processMessageCatch(
                  recordResponse([Context(m) EXCEPT !.msg.failed = @ \cup {"ws.send"}],
                                 IF o.threw THEN generalQAApology ELSE valueOf(o.value))))
    /\ UNCHANGED <<searchVars, scoreVars, activeConnections, connectionTimeouts>>
    /\ settled' = settled + 1

NextCatch ==
    \/ Connect(OneSocket)
    \/ CloseEvent(OneSocket)
    \/ /\ \A m \in 1..Len(msgs) : msgs[m].status = "done"
       /\ \E frame \in AccumFrames : Receive(OneSocket, frame, MaxCatchMsgs)
    \/ \E m \in 1..Len(msgs), o \in AccumInfoOutcomes : ExtractUserInfoSettles(m, o)
    \/ \E id \in 1..Len(calls) : BraveSettles(id, Threw)
    \/ \E id \in 1..Len(calls) : DuckDuckGoSettles(id, Threw)
    \/ \E m \in 1..Len(msgs), o \in GeneralQAOutcomes : GeneralQASettles(m, o)
    \/ \E m \in 1..Len(msgs) : CollegeMatchCatchThrows(m)
    \/ \E m \in 1..Len(msgs), o \in GeneralQAOutcomes : SendResponseThrows(m, o)

SpecCatch == InitOver({OneSocket}) /\ [][NextCatch]_vars

\* the turns that end in the catch of processMessage in this step
caughtAtTopLevel ==
    {m \in 1..Len(msgs) : /\ "processMessage" \notin msgs[m].failed
                          /\ "processMessage" \in msgs'[m].failed}

\* the fixed apology is sent as the response to m in this step
apologySent(m) ==
    sockets'[msgs[m].ws].sent
        = Append(sockets[msgs[m].ws].sent,
                 [type |-> "ai_response", message |-> errorResponse, re |-> m])

\* C23 (as claimed): when an exception reaches the catch of processMessage,
\* the fixed apology is sent as the response, and the conversation history
\* records the turn: it ends with the user message and the response given
\* for it, the apology.
C23_TopLevelFailureRecordsTurn ==
    [][\A m \in caughtAtTopLevel :
           LET h == agents'[msgs[m].ws].conversationHistory
           IN  /\ apologySent(m)
               /\ Len(h) >= 2
               /\ h[Len(h) - 1].role = "user"
               /\ h[Len(h) - 1].content = trim(valueOf(msgs[m].frame.message))
               /\ h[Len(h)].role = "assistant"
               /\ h[Len(h)].content = errorResponse]_vars

-----------------------------------------------------------------------------
(* Claims about the fit score, under SpecScore                              *)

\* two fractions in lowest terms, as frac and the operations on fractions
\* leave them, are the same number when they are equal
fracEq(a, b) == a = b

\* the dimensions whose inputs are present on both sides
academicApplies(c, u) ==
    \/ truthy(u.gpa) /\ truthy(c.avg_gpa)
    \/ truthy(u.sat_score) /\ truthy(c.avg_sat)
majorApplies(c, u) == u.major_preference # <<>> /\ c.majors # <<>>
locationApplies(c, u) == u.location_preference # <<>>
affordabilityApplies(c, u) == truthy(maxAnnualTuition(u)) /\ truthy(c.tuition)

\* the sum of weight times sub-score over the applicable dimensions, and the
\* sum of their weights, both in tenths
weightedSum(c, u) ==
    LET term(applies, score, weight) ==
            IF applies THEN fracMul(valueOf(score), frac(weight, 1)) ELSE frac(0, 1)
    IN  fracAdd(fracAdd(term(academicApplies(c, u), calculateAcademicFit(c, u), 4),
                        term(majorApplies(c, u), calculateMajorFit(c, u), 3)),
                fracAdd(term(locationApplies(c, u), calculateLocationFit(c, u), 2),
                        term(affordabilityApplies(c, u),
                             calculateAffordabilityScore(c, u), 1)))
applicableWeights(c, u) ==
    (IF academicApplies(c, u) THEN 4 ELSE 0) + (IF majorApplies(c, u) THEN 3 ELSE 0)
    + (IF locationApplies(c, u) THEN 2 ELSE 0) + (IF affordabilityApplies(c, u) THEN 1 ELSE 0)

\* C28: the fit score is the sum of weight times sub-score over the
\* applicable dimensions divided by the sum of their weights (0.4 academic,
\* 0.3 major, 0.2 location, 0.1 affordability); and the inputs of a
\* dimension that does not apply can be removed on either side, or changed,
\* without changing the score.
C28_FitScoreIsWeightedMean ==
    \A k \in 1..Len(scored) :
        LET c == scored[k].college
            u == scored[k].userProfile
            fit == c.fit_score
        IN  scored[k].done =>
              /\ applicableWeights(c, u) > 0
                     => fracEq(fit, fracDiv(weightedSum(c, u),
                                            frac(applicableWeights(c, u), 1)))
              /\ ~academicApplies(c, u)
                     => /\ fracEq(fit, scoreCollege(c, [u EXCEPT !.gpa = {}, !.sat_score = {}]))
                        /\ fracEq(fit, scoreCollege([c EXCEPT !.avg_gpa = {}, !.avg_sat = {}], u))
              /\ ~majorApplies(c, u)
                     => /\ fracEq(fit, scoreCollege(c, [u EXCEPT !.major_preference = <<>>]))
                        /\ fracEq(fit, scoreCollege([c EXCEPT !.majors = <<>>], u))
              /\ ~locationApplies(c, u)
                     => fracEq(fit, scoreCollege([c EXCEPT !.location = <<"Z">>], u))
              /\ ~affordabilityApplies(c, u)
                     => /\ fracEq(fit, scoreCollege(c, [u EXCEPT !.budget = {}]))
                        /\ fracEq(fit, scoreCollege([c EXCEPT !.tuition = {}], u))

\* C28 witness: a profile with a gpa, majors and a budget is scored against
\* a college that has an average gpa and a tuition but no list of majors:
\* the score is the mean over the academic and affordability dimensions, and
\* differs from the sum's share of all three weights.
C28_Witness ==
    \E k \in 1..Len(scored) :
        LET c == scored[k].college
            u == scored[k].userProfile
        IN  /\ scored[k].done
            /\ academicApplies(c, u)
            /\ affordabilityApplies(c, u)
            /\ u.major_preference # <<>> /\ c.majors = <<>>
            /\ ~locationApplies(c, u)
            /\ fracEq(c.fit_score, fracDiv(weightedSum(c, u), frac(5, 1)))
            /\ ~fracEq(c.fit_score, fracDiv(weightedSum(c, u), frac(8, 1)))

-----------------------------------------------------------------------------
(* Claims about the recommendations, under SpecBudget                       *)

\* the profile has a budget and some college of the list has a tuition
\* within it
somePriceWithin(colleges, userProfile) ==
    /\ truthy(maxAnnualTuition(userProfile))
    /\ \E k \in 1..Len(colleges) :
           /\ truthy(colleges[k].tuition)
           /\ valueOf(colleges[k].tuition) <= valueOf(maxAnnualTuition(userProfile))

\* C29 (as claimed): when a budget is set and at least one candidate college
\* has a tuition within it, every college listed in the report has a tuition
\* within the budget.
C29_ListedWithinBudget ==
    \A i \in 1..Len(applied) :
        LET a == applied[i]
        IN  somePriceWithin(a.colleges, a.userProfile)
                => \A j \in 1..Len(a.recommendations) :
                       /\ truthy(a.recommendations[j].tuition)
                       /\ valueOf(a.recommendations[j].tuition)
                              <= valueOf(maxAnnualTuition(a.userProfile))

\* C29 (amended): when a budget is set and at least one candidate college
\* has a tuition within it, every college listed in the report has a tuition
\* within the budget or no tuition at all; a candidate without a tuition
\* passes the filter whatever the budget is, and is listed when the
\* candidates are eight or fewer.
C29_ListedWithinBudgetOrUnpriced ==
    \A i \in 1..Len(applied) :
        LET a == applied[i]
        IN  somePriceWithin(a.colleges, a.userProfile)
                => /\ \A j \in 1..Len(a.recommendations) :
                          \/ ~truthy(a.recommendations[j].tuition)
                          \/ valueOf(a.recommendations[j].tuition)
                                 <= valueOf(maxAnnualTuition(a.userProfile))
                   /\ \A k \in 1..Len(a.colleges) :
                          (Len(a.colleges) <= 8 /\ ~truthy(a.colleges[k].tuition))
                              => a.colleges[k].name \in namesOf(a.recommendations)

\* C29 witness: of two colleges one is above the budget and one within it,
\* and the one within it is the only one listed.
C29_Witness ==
    \E i \in 1..Len(applied) :
        LET a == applied[i]
        IN  /\ Len(a.colleges) = 2
            /\ somePriceWithin(a.colleges, a.userProfile)
            /\ \E k \in 1..2 : /\ truthy(a.colleges[k].tuition)
                               /\ valueOf(a.colleges[k].tuition)
                                      > valueOf(maxAnnualTuition(a.userProfile))
            /\ Len(a.recommendations) = 1
            /\ valueOf(a.recommendations[1].tuition)
                   <= valueOf(maxAnnualTuition(a.userProfile))

\* C29 witness of the amended case: a college without a tuition is listed
\* next to one within the budget.
C29_WitnessUnpriced ==
    \E i \in 1..Len(applied) :
        LET a == applied[i]
        IN  /\ somePriceWithin(a.colleges, a.userProfile)
            /\ Len(a.recommendations) = 2
            /\ \E j \in 1..2 : ~truthy(a.recommendations[j].tuition)

\* the candidates the budget leaves: those within it, or all of them when
\* there is no budget or none is within it
candidatesLeft(colleges, userProfile) ==
    IF ~truthy(maxAnnualTuition(userProfile)) \/ nonePasses(colleges, userProfile)
    THEN {k \in 1..Len(colleges) : TRUE}
    ELSE {k \in 1..Len(colleges) : withinBudget(colleges[k], userProfile)}

\* the tier a fit score belongs to
tierOf(fit) ==
    IF 5 * fit.n >= 4 * fit.d THEN "excellent"
    ELSE IF 5 * fit.n >= 3 * fit.d THEN "good"
    ELSE "decent"

\* C30: the report lists at most eight colleges, the ones of highest fit
\* score among the candidates the budget leaves, in non-increasing order of
\* fit score; each is listed once, under the tier of its fit score (at least
\* 0.8, from 0.6, below 0.6), and the entries are numbered 1..n in the order
\* they are listed, across the tiers.
C30_ReportTopEightTieredNumbered ==
    \A i \in 1..Len(applied) :
        LET a == applied[i]
            entries == a.report.entries
            left == candidatesLeft(a.colleges, a.userProfile)
            fitOf(k) == scoreCollege(a.colleges[k], a.userProfile)
            \* the candidates an entry can stand for, and the entries that can
            \* stand for a candidate
            sameAs(e) == {k \in left : a.colleges[k].name = e.name /\ fitOf(k) = e.fit_score}
            listedAs(k) == {j \in 1..Len(entries) :
                               entries[j].name = a.colleges[k].name
                               /\ entries[j].fit_score = fitOf(k)}
        IN  /\ Len(entries) = IF Cardinality(left) < 8 THEN Cardinality(left) ELSE 8
            /\ \A j \in 1..Len(entries) :
                  /\ entries[j].index = j
                  /\ entries[j].tier = tierOf(entries[j].fit_score)
                  /\ sameAs(entries[j]) # {}
            /\ \A j \in 1..(Len(entries) - 1) :
                  fracLeq(entries[j + 1].fit_score, entries[j].fit_score)
            /\ \A k \in left :
                  /\ Cardinality(listedAs(k))
                         <= Cardinality({k2 \in left : a.colleges[k2].name = a.colleges[k].name
                                                      /\ fitOf(k2) = fitOf(k)})
                  /\ listedAs(k) = {}
                         => \A j \in 1..Len(entries) : fracLeq(fitOf(k), entries[j].fit_score)

\* C30 witness: of the ten seed colleges eight are listed, under more than
\* one tier, numbered 1 to 8.
C30_Witness ==
    \E i \in 1..Len(applied) :
        LET entries == applied[i].report.entries
        IN  /\ applied[i].colleges = seedColleges
            /\ Len(entries) = 8
            /\ entries[8].index = 8
            /\ entries[1].tier # entries[8].tier

-----------------------------------------------------------------------------
(* Claims about the direct path of CollegeSearchTool.search, under         *)
(* SpecStatic                                                              *)

\* some result of the list carries college_data
carriesCollegeData(searchResults) ==
    \E j \in 1..Len(searchResults) : "college_data" \in DOMAIN searchResults[j]

\* the reply processCollegeMatch gives for the colleges built from the
\* college_data of searchResults, for the profile userProfile
replyFromDirectData(searchResults, userProfile) ==
    LET directData == filterSeq(searchResults, LAMBDA r : "college_data" \in DOMAIN r)
        colleges == collegesOf([i \in 1..Len(directData) |->
                                   staticCollegeData[directData[i].college_data]])
    IN  IF Len(colleges) = 0 THEN generateFallbackAdvice
        ELSE generateCollegeReport(matchedColleges(colleges, userProfile))

\* handler invocation m is given, in this step, what its call of
\* searchUniversities returned
searchReturnsTo(m) ==
    /\ m \in 1..Len(msgs)
    /\ msgs[m].status \in {"extractUserInfo", "searchUniversities"}
    /\ msgs'[m].status # msgs[m].status
    /\ msgs'[m].call \in 1..Len(calls')
    /\ calls'[msgs'[m].call].status = "returned"

\* C31: when the results searchUniversities returns carry college data (the
\* static strategy won, or a cached copy of its result is hit), the colleges
\* are built from that data and the reply is made in the same step, with no
\* call of the extraction oracle; the extraction oracle is called exactly
\* when the results are not empty and none of them carries college_data.
C31_DirectDataSkipsExtraction ==
    [][\A m \in 1..Len(msgs) :
          searchReturnsTo(m)
              => LET searchResults == calls'[msgs'[m].call].result
                     agent == agents'[msgs'[m].ws]
                 IN  /\ carriesCollegeData(searchResults)
                            => /\ msgs'[m].status = "done"
                               /\ lastReply(agent.conversationHistory)
                                      = replyFromDirectData(searchResults, agent.userProfile)
                     /\ msgs'[m].status = "processSearchResultsWithAI"
                            <=> /\ Len(searchResults) > 0
                                /\ ~carriesCollegeData(searchResults)]_vars

\* a cached copy of a static result was hit and answered directly
C31_Witness ==
    \E m \in 1..Len(msgs) :
        /\ msgs[m].status = "done"
        /\ msgs[m].call \in 1..Len(calls)
        /\ calls[msgs[m].call].hit
        /\ carriesCollegeData(calls[msgs[m].call].result)

\* a search won by a provider went on to the extraction oracle
C31_WitnessOracle ==
    \E m \in 1..Len(msgs) :
        /\ msgs[m].status = "processSearchResultsWithAI"
        /\ calls[msgs[m].call].tried = <<BRAVE>>

-----------------------------------------------------------------------------
(* Claims about the reply of the college-match flow, under FairSpec        *)

\* handler invocation m went through processCollegeMatch
collegeMatchOf(m) ==
    /\ msgs[m].began
    /\ detectIntent(trim(valueOf(msgs[m].frame.message))) = COLLEGE_MATCH

\* the catch of processCollegeMatch ran for m
caughtInCollegeMatch(m) == "updateProfile" \in msgs[m].failed

\* C32: a message answered by the college-match flow gets the fixed
\* general-advice text if and only if search returned no college or the
\* catch of the flow ran; otherwise it gets a report that lists at least
\* one college.
C32_AdviceIffNoCollegeOrCaught ==
    \A m \in 1..Len(msgs) :
        msgs[m].status = "done" /\ collegeMatchOf(m)
            => /\ Cardinality(repliesTo(m)) = 1
               /\ \A f \in repliesTo(m) :
                     IF msgs[m].colleges = {0} \/ caughtInCollegeMatch(m)
                     THEN f.message = generateFallbackAdvice
                     ELSE /\ f.message # generateFallbackAdvice
                          /\ f.message.kind = "report"
                          /\ Len(f.message.entries) >= 1

\* one message was answered with the advice because search returned no
\* college, another because the catch ran
C32_Witness ==
    /\ \E m \in 1..Len(msgs) :
          /\ msgs[m].status = "done" /\ collegeMatchOf(m)
          /\ msgs[m].colleges = {0}
    /\ \E m \in 1..Len(msgs) :
          /\ msgs[m].status = "done" /\ collegeMatchOf(m)
          /\ caughtInCollegeMatch(m)

\* a search whose colleges all cost more than the budget was answered with
\* a report
C32_WitnessBudget ==
    \E m \in 1..Len(msgs) : \E f \in repliesTo(m) :
        /\ msgs[m].status = "done" /\ collegeMatchOf(m)
        /\ msgs[m].colleges # {} /\ msgs[m].colleges # {0}
        /\ \E j \in 1..Len(sockets[msgs[m].ws].sent) :
              /\ sockets[msgs[m].ws].sent[j].re = m
              /\ sockets[msgs[m].ws].sent[j].type = "status_update"
              /\ sockets[msgs[m].ws].sent[j].message = "budget_none"
        /\ f.message.kind = "report"
        /\ Len(f.message.entries) >= 1

-----------------------------------------------------------------------------
(* SpecPair: two open connections whose messages interleave, the oracle    *)
(* finding a major in one message and scores, a place and a budget in      *)
(* another                                                                 *)

\* bound: the frames the two connections of SpecPair receive
MaxPairMsgs == 2

PairFrames == {FrameOf(TextFind), FrameOf(TextHelp), FrameOf(TextEssay)}
PairInfoOutcomes == {OracleValue(InfoDrama), OracleValue(InfoBudget)}

NextPair ==
    \/ \E ws \in Sockets : Connect(ws)
    \/ \E ws \in Sockets, frame \in PairFrames : Receive(ws, frame, MaxPairMsgs)
    \/ \E m \in 1..Len(msgs), o \in PairInfoOutcomes : ExtractUserInfoSettles(m, o)
    \/ \E id \in 1..Len(calls), o \in SpecBraveOutcomes : BraveSettles(id, o)
    \/ \E id \in 1..Len(calls) : DuckDuckGoSettles(id, Threw)
    \/ \E m \in 1..Len(msgs), o \in ExtractCollegesOutcomes : ExtractCollegesSettles(m, o)
    \/ \E m \in 1..Len(msgs), o \in GeneralQAOutcomes : GeneralQASettles(m, o)

SpecPair == Init /\ [][NextPair]_vars

-----------------------------------------------------------------------------
(* Claims about the independence of connections, under SpecPair            *)

\* this step runs the handler invocation m, from its frame or from the
\* settling of a call it awaits
processedInStep(m) == m > Len(msgs) \/ msgs'[m] # msgs[m]

\* C33: a step that processes a message of one connection leaves the
\* UserProfile and the conversation history of every other connection as
\* they were, however the messages of the connections interleave.
C33_ConnectionsIndependent ==
    [][\A m \in 1..Len(msgs') :
          processedInStep(m)
              => \A ws \in Sockets \ {msgs'[m].ws} :
                    /\ agents'[ws].userProfile = agents[ws].userProfile
                    /\ agents'[ws].conversationHistory = agents[ws].conversationHistory]_vars

\* a message of connection 2 was answered while a message of connection 1,
\* received before it, is still being processed; connection 1 changed its
\* profile before, and connection 2 has the profile it began with
C33_Witness ==
    /\ Len(msgs) = 2
    /\ msgs[1].ws = 1 /\ msgs[1].status = "searchUniversities"
    /\ msgs[2].ws = 2 /\ msgs[2].status = "done" /\ msgs[2].final = "ai_response"
    /\ agents[1].userProfile # newUserProfile
    /\ agents[2].userProfile = newUserProfile
    /\ Len(agents[1].conversationHistory) = 1
    /\ Len(agents[2].conversationHistory) = 2

-----------------------------------------------------------------------------
(* Claims about the canned intents, under SpecAccum                        *)

\* the canned text of an intent that has one
cannedReplyOf(intent) == IF intent = ESSAY_REVISE THEN essayReply ELSE scheduleReply

\* the conversation history after one more turn: the message, the reply,
\* and the cut to the last twelve entries
afterTurn(history, userMessage, response) ==
    LET pushed == history \o <<[role |-> "user", content |-> userMessage],
                               [role |-> "assistant", content |-> response]>>
    IN  IF Len(pushed) > 12 THEN SubSeq(pushed, Len(pushed) - 11, Len(pushed)) ELSE pushed

\* C34: a message routed to ESSAY_REVISE or SCHEDULE_PLAN is answered, in
\* the step that receives it, with the canned text of its intent: the
\* handler is done without having awaited an oracle, no search call is made,
\* the cache is neither read nor written, the UserProfile is unchanged, and
\* the conversation history gains the user turn and the canned reply.
C34_CannedIntentsTouchOnlyHistory ==
    [][Len(msgs') = Len(msgs) + 1 /\ msgs'[Len(msgs')].began
          => LET m == msgs'[Len(msgs')]
                 userMessage == trim(valueOf(m.frame.message))
                 intent == detectIntent(userMessage)
             IN  intent \in {ESSAY_REVISE, SCHEDULE_PLAN}
                     => /\ m.status = "done"
                        /\ m.call = 0 /\ m.request = <<>> /\ m.failed = {}
                        /\ calls' = calls
                        /\ cache' = cache
                        /\ stores' = stores
                        /\ agents'[m.ws].userProfile = agents[m.ws].userProfile
                        /\ agents'[m.ws].conversationHistory
                               = afterTurn(agents[m.ws].conversationHistory, userMessage,
                                           cannedReplyOf(intent))
                        /\ sockets'[m.ws].sent
                               = Append(sockets[m.ws].sent,
                                        [type |-> "ai_response",
                                         message |-> cannedReplyOf(intent),
                                         re |-> m.id])]_vars

\* a SCHEDULE_PLAN message was answered on a connection whose profile was
\* filled and whose cache holds the result of an earlier search
C34_Witness ==
    \E m \in 1..Len(msgs) :
        /\ msgs[m].frame = FrameOf(TextSchedule)
        /\ msgs[m].status = "done"
        /\ msgs[m].final = "ai_response"
        /\ agents[msgs[m].ws].userProfile # newUserProfile
        /\ DOMAIN cache[msgs[m].ws] # {}
        /\ Len(agents[msgs[m].ws].conversationHistory) > 0
        /\ agents[msgs[m].ws].conversationHistory[
               Len(agents[msgs[m].ws].conversationHistory)].role = "assistant"
        /\ lastReply(agents[msgs[m].ws].conversationHistory) = scheduleReply

-----------------------------------------------------------------------------
(* SpecOracle: one open connection asking for college matches, the oracle  *)
(* returning a negative budget, values that are no numbers, a budget under *)
(* every seed tuition, a profile within the documented ranges, or nothing; *)
(* both providers failing                                                  *)

\* bound: the frames the connection of SpecOracle receives
MaxOracleMsgs == 2

OracleInfoOutcomes ==
    {OracleValue(i) : i \in {InfoNegativeBudget, InfoOddNumbers, InfoBudget, InfoScores,
                             InfoLowBudget, noInfo}}

NextOracle ==
    \/ Connect(OneSocket)
    \/ Receive(OneSocket, FrameOf(TextFind), MaxOracleMsgs)
    \/ \E m \in 1..Len(msgs), o \in OracleInfoOutcomes : ExtractUserInfoSettles(m, o)
    \/ \E id \in 1..Len(calls) : BraveSettles(id, Threw)
    \/ \E id \in 1..Len(calls) : DuckDuckGoSettles(id, Threw)

SpecOracle == InitOver({OneSocket}) /\ [][NextOracle]_vars

\* the reports sent on the connection of ws
reportsSent(ws) ==
    {f \in {sockets[ws].sent[j] : j \in 1..Len(sockets[ws].sent)} :
        f.type = "ai_response" /\ f.message.kind = "report"}

-----------------------------------------------------------------------------
(* Claims about the budget in the whole college-match flow, under          *)
(* SpecOracle                                                              *)

\* the seed dataset has a college that matches the majors of the profile,
\* if it has any, and its locations, if it has any
seedMatches(userProfile) ==
    \E i \in 1..Len(staticCollegeData) :
        /\ \/ userProfile.major_preference = <<>>
           \/ \E j \in 1..Len(userProfile.major_preference),
                 k \in 1..Len(staticCollegeData[i].majors) :
                 includes(toLowerCase(staticCollegeData[i].majors[k]),
                          toLowerCase(userProfile.major_preference[j]))
        /\ \/ userProfile.location_preference = <<>>
           \/ \E j \in 1..Len(userProfile.location_preference) :
                 includes(toLowerCase(staticCollegeData[i].location),
                          toLowerCase(userProfile.location_preference[j]))

\* the profile has no budget, or a positive one
budgetAbsentOrPositive(userProfile) ==
    \/ userProfile.budget = {}
    \/ /\ valueOf(userProfile.budget).max_annual_tuition # NaN
       /\ valueOf(userProfile.budget).max_annual_tuition > 0

\* handler invocation m is answered in this step
answeredInStep(m) == msgs[m].status # "done" /\ msgs'[m].status = "done"

\* the frame sent last on the connection of m is a report for m that lists
\* a college
reportSentFor(m) ==
    LET sent == sockets'[msgs[m].ws].sent
    IN  /\ Len(sent) > 0
        /\ sent[Len(sent)].re = m
        /\ sent[Len(sent)].type = "ai_response"
        /\ sent[Len(sent)].message.kind = "report"
        /\ Len(sent[Len(sent)].message.entries) >= 1

\* C36: with both providers failing, a college-match message whose profile
\* has majors and locations that some seed college matches is answered with
\* a report that lists at least one college, whatever the budget of the
\* profile is (stated here for the budgets the profile is meant to hold:
\* none, or a positive number, however small, and for a search made with
\* the profile as it stands when the reply is sent).
C36_BudgetNeverEmptiesRecommendation ==
    [][\A m \in 1..Len(msgs) :
          /\ answeredInStep(m)
          /\ msgs[m].queryParams = searchParamsOf(agents'[msgs[m].ws].userProfile)
          /\ seedMatches(agents'[msgs[m].ws].userProfile)
          /\ budgetAbsentOrPositive(agents'[msgs[m].ws].userProfile)
          => reportSentFor(m)]_vars

-----------------------------------------------------------------------------
(* SpecHistory: one connection that receives enough messages for the cut of *)
(* the conversation history to twelve entries (line 1216) to happen, with   *)
(* up to MaxInFlight messages being processed at a time.  The oracle of     *)
(* extractUserInfo delivers null, so that a college-match turn ends in the  *)
(* catch of processCollegeMatch, whose status update may throw (SpecCatch); *)
(* the other messages are answered with the canned text of ESSAY_REVISE.    *)

\* bound: the frames the connection of SpecHistory receives
MaxHistoryMsgs == 7

\* bound: the messages of the connection that are being processed at a time
MaxInFlight == 2

HistoryFrames == {FrameOf(TextEssay), FrameOf(TextFind)}

\* the invocations of processMessage on connection ws that have not returned
beingProcessed(ws) ==
    {m \in 1..Len(msgs) : msgs[m].ws = ws /\ msgs[m].began /\ msgs[m].status # "done"}

NextHistory ==
    \/ Connect(OneSocket)
    \/ /\ Cardinality(beingProcessed(OneSocket)) < MaxInFlight
       /\ \E frame \in HistoryFrames : Receive(OneSocket, frame, MaxHistoryMsgs)
    \/ \E m \in 1..Len(msgs) : ExtractUserInfoSettles(m, OracleNull)
    \/ \E m \in 1..Len(msgs) : CollegeMatchCatchThrows(m)

SpecHistory == InitOver({OneSocket}) /\ [][NextHistory]_vars

\* the invocations of processMessage that return in this step, and those of
\* them that return from the try block (line 1221)
returnedInStep ==
    {m \in 1..Len(msgs') : /\ msgs'[m].began /\ msgs'[m].status = "done"
                           /\ (m <= Len(msgs) => msgs[m].status # "done")}
returnedNormallyInStep == {m \in returnedInStep : "processMessage" \notin msgs'[m].failed}

\* the history the response of m is pushed onto: the history before the
\* step, with the user message when m was received in this very step
historyBeforeResponse(m) ==
    LET history == agents[msgs'[m].ws].conversationHistory
    IN  IF m <= Len(msgs) THEN history
        ELSE Append(history, [role |-> "user",
                              content |-> trim(valueOf(msgs'[m].frame.message))])

\* the first half of C37: when processMessage returns from its try block the
\* history holds at most twelve entries, the last twelve of what it held
\* with the response pushed onto it
NormalCompletionKeepsLastTwelve ==
    [][\A m \in returnedNormallyInStep :
          LET history == agents'[msgs'[m].ws].conversationHistory
          IN  /\ Len(history) \in 1..12
              /\ history[Len(history)].role = "assistant"
              /\ history = sliceTail(Append(historyBeforeResponse(m), history[Len(history)]),
                                     12)]_vars

\* C37: the conversation history of a connection never holds more than
\* twelve entries plus one for each message of the connection that is still
\* being processed (and so holds at most twelve when none is).
C37_HistoryWithinCapPlusInFlight ==
    \A ws \in DOMAIN agents :
        Len(agents[ws].conversationHistory) <= 12 + Cardinality(beingProcessed(ws))

-----------------------------------------------------------------------------
(* Ties between the intents other than COLLEGE_MATCH, under SpecIntent      *)

\* the intents other than COLLEGE_MATCH whose keyword count in message is
\* the highest of the three
tiedAtTop(message) ==
    LET others == {ESSAY_REVISE, SCHEDULE_PLAN, GENERAL_QA}
    IN  {intent \in others :
            \A other \in others : keywordCount(message, other) <= keywordCount(message, intent)}

\* the intent of a set that comes last in the order ESSAY_REVISE,
\* SCHEDULE_PLAN, GENERAL_QA
lastListed(intents) ==
    IF GENERAL_QA \in intents THEN GENERAL_QA
    ELSE IF SCHEDULE_PLAN \in intents THEN SCHEDULE_PLAN
    ELSE ESSAY_REVISE

\* C38: for a message with no COLLEGE_MATCH keyword in which two or more of
\* ESSAY_REVISE, SCHEDULE_PLAN and GENERAL_QA share the highest, non-zero
\* keyword count, detectIntent returns the one of them that comes last in
\* that order; the result is determined by the message.
C38_TieGoesToLastListed ==
    \A i \in 1..Len(applied) :
        LET message == applied[i].message
            tied == tiedAtTop(message)
        IN  /\ keywordCount(message, COLLEGE_MATCH) = 0
            /\ Cardinality(tied) >= 2
            /\ \A intent \in tied : keywordCount(message, intent) > 0
            => applied[i].intent = lastListed(tied)

\* C38 witness: GENERAL_QA was returned for a message with one keyword of
\* ESSAY_REVISE, one of GENERAL_QA and none of the other intents
C38_Witness ==
    \E i \in 1..Len(applied) :
        /\ applied[i].intent = GENERAL_QA
        /\ keywordCount(applied[i].message, COLLEGE_MATCH) = 0
        /\ keywordCount(applied[i].message, ESSAY_REVISE) = 1
        /\ keywordCount(applied[i].message, SCHEDULE_PLAN) = 0
        /\ keywordCount(applied[i].message, GENERAL_QA) = 1

-----------------------------------------------------------------------------
(* SpecBlank: one connection and its timer; frames without a usable message *)
(* arrive before, during and after a college-match turn, also after the     *)
(* timer has started the closing handshake                                  *)

\* bound: the frames the connection of SpecBlank receives
MaxBlankMsgs == 3

\* the frames that carry no message: not JSON, no message field, an empty
\* message, a message of spaces
BlankFrames == {FrameInvalid, FrameWithout, FrameOf(<<>>), FrameOf(TextBlank)}

NextBlank ==
    \/ Tick({connectionTimeout})
    \/ Connect(OneSocket)
    \/ TimerFires(OneSocket)
    \/ Len(msgs) = 0 /\ Receive(OneSocket, FrameOf(TextFind), MaxBlankMsgs)
    \/ \E frame \in BlankFrames : Receive(OneSocket, frame, MaxBlankMsgs)
    \/ \E m \in 1..Len(msgs) : ExtractUserInfoSettles(m, OracleValue(InfoBudget))
    \/ \E id \in 1..Len(calls) : BraveSettles(id, Threw)
    \/ \E id \in 1..Len(calls) : DuckDuckGoSettles(id, Threw)

SpecBlank == InitOver({OneSocket}) /\ [][NextBlank]_vars

\* a frame of BlankFrames is received in this step
blankReceived == Len(msgs') = Len(msgs) + 1 /\ msgs'[Len(msgs')].frame \in BlankFrames

\* the step that receives the frame does not invoke the agent and changes
\* nothing but the socket and the record of the invocation
blankLeavesState ==
    /\ ~msgs'[Len(msgs')].began
    /\ msgs'[Len(msgs')].status = "done"
    /\ SubSeq(msgs', 1, Len(msgs)) = msgs
    /\ agents' = agents
    /\ cache' = cache
    /\ calls' = calls
    /\ stores' = stores
    /\ activeConnections' = activeConnections

\* the frames the step sends on the socket of the frame received
sentInStep ==
    LET ws == msgs'[Len(msgs')].ws
    IN  SubSeq(sockets'[ws].sent, Len(sockets[ws].sent) + 1, Len(sockets'[ws].sent))

\* the one error frame of the frame received
errorFrameOfBlank ==
    [ type |-> "error",
      message |-> IF msgs'[Len(msgs')].frame.parsed THEN "invalid_message"
                  ELSE "handler_error",
      re |-> Len(msgs') ]

\* C39 as stated: a frame that is not JSON, or whose message is missing,
\* empty or blank, produces exactly one error frame and nothing else, the
\* agent is not invoked, and profile, history and cache are unchanged.
C39_BlankFrameGetsOneError ==
    [][blankReceived
          => /\ blankLeavesState
             /\ sockets'[msgs'[Len(msgs')].ws].sent
                    = Append(sockets[msgs'[Len(msgs')].ws].sent, errorFrameOfBlank)]_vars

\* C39 amended: such a frame received on an open socket produces exactly
\* one error frame and nothing else; received on a socket that is closing
\* it produces no frame; in both cases the agent is not invoked, and
\* profile, history and cache are unchanged.
C39_BlankFrameGetsOneErrorWhileOpen ==
    [][blankReceived
          => /\ blankLeavesState
             /\ sentInStep = IF sockets[msgs'[Len(msgs')].ws].readyState = "OPEN"
                             THEN <<errorFrameOfBlank>> ELSE <<>>
             /\ sockets'[msgs'[Len(msgs')].ws].readyState
                    = sockets[msgs'[Len(msgs')].ws].readyState]_vars

\* C39 witness: a blank message was answered with the error frame on an open
\* socket whose agent holds a budget, a history and a message in flight
C39_Witness ==
    \E m \in 1..Len(msgs) :
        /\ msgs[m].frame = FrameOf(TextBlank)
        /\ msgs[m].status = "done" /\ ~msgs[m].began
        /\ \E j \in 1..Len(sockets[OneSocket].sent) :
               sockets[OneSocket].sent[j]
                   = [type |-> "error", message |-> "invalid_message", re |-> m]
        /\ agents[OneSocket].userProfile.budget # {}
        /\ Len(agents[OneSocket].conversationHistory) >= 1
        /\ \E k \in 1..(m - 1) : msgs[k].status # "done"

=============================================================================
